---------------------------- MODULE Spec2Model ----------------------------
(***************************************************************************)
(* Model of the protected dialer of AndroidLibXrayLite                     *)
(* (src/libv2ray_support.go, the full version at lines 170-509) and of the *)
(* controller that drives it (src/unnamed/part_003, V2RayPoint).           *)
(*                                                                         *)
(* Granularity: one step per system call or per access to a field shared   *)
(* between goroutines (the code takes no lock around currentServer,        *)
(* vServer or resolveChan, so every read and write is its own step).       *)
(***************************************************************************)
EXTENDS Integers, Sequences, FiniteSets, TLC

(***************************************************************************)
(* Bounds of the model.                                                    *)
(***************************************************************************)
NumDials == 2        \* Dial calls that can be in progress at once
MaxCalls == 3        \* Dial calls the core issues in all
MaxFd == 3           \* descriptor numbers 1..MaxFd of the process
MaxStarts == 2       \* RunLoop calls the host issues
MaxAddrs == 1        \* longest resolver answer while the controller runs
PrepCalls == 1       \* Dial calls issued while a RunLoop is exercised
PrepRuns == 1        \* RunLoop calls issued while a Dial is exercised
MaxIPs == 3          \* longest resolver answer handed to lookupAddr alone
MaxNow == 5          \* seconds the clock runs
NumCallers == 2      \* goroutines calling NextIP and currentIP at once
MaxOps == 4          \* calls the host makes on the CoreController
MaxTraffic == 2      \* traffic one core instance counts
MaxApps == 3         \* entries of config.App given to MeasureOutboundDelay
MaxTurns == 3        \* throttle periods the clock runs through
MaxSegs == 3         \* elements of a path given to the file reader

(***************************************************************************)
(* Program constants.                                                      *)
(***************************************************************************)
attempts == 2        \* measureInstDelay: const attempts = 2
MaxRetry == 10       \* PrepareDomain: maxRetry := 10
Throttle == 5        \* NextIP: time.Second*5
Width == 256         \* resolved.ipIdx is a uint8

Dials == 1..NumDials
Fds == 1..MaxFd
Nets == {"tcp", "udp"}
Calls == 1..MaxCalls
Starts == 1..MaxStarts
\* every RunLoop makes two channels: closeChan, then resolveChan
ChanIds == 1..(2 * MaxStarts)
\* host:port strings: the servers the host may configure as primary and the
\* core may dial (a dial to the one that is not the primary is a dial to
\* "any other destination")
Dests == {"a:1", "b:2"}
V4Addrs == {"v4a", "v4b"}
V6Addrs == {"v6a", "v6b"}
Addrs == V4Addrs \cup V6Addrs

\* net.SplitHostPort and LookupPort of a well-formed host:port
HostOf(addr) == IF addr = "a:1" THEN "a" ELSE "b"
PortOf(addr) == IF addr = "a:1" THEN 1 ELSE 2

\* time.Time{}: the zero time, further in the past than any throttle window
ZeroTime == 0 - Throttle

\* (*resolved)(nil)
Nil == [domain |-> "", IPs |-> <<>>, Port |-> 0, ipIdx |-> 0,
        lastResolved |-> ZeroTime, lastSwitched |-> ZeroTime]

\* The answers LookupIPAddr gives while the controller runs: every sequence
\* of at most MaxAddrs addresses, one address standing for each family
Answers == UNION {[1..n -> {"v4a", "v6a"}] : n \in 0..MaxAddrs}
\* The answers handed to lookupAddr alone: every sequence of at most MaxIPs
\* addresses
LongAnswers == UNION {[1..n -> Addrs] : n \in 0..MaxIPs}
Callers == 1..NumCallers

VARIABLES
    now,            \* wall clock, in seconds
    currentServer,  \* ProtectedDialer.currentServer
    resolveChan,    \* ProtectedDialer.resolveChan: a channel id, 0 = nil
    preferIPv6,     \* ProtectedDialer.preferIPv6
    vServer,        \* ProtectedDialer.vServer: a resolved record or Nil
    chans,          \* channels made so far: id -> closed?
    fdTable,        \* descriptor number -> socket it refers to (0 = free)
    sock,           \* kernel sockets, named by the Dial call whose socket() made them
    conns,          \* connections Dial has returned: <<descriptor, socket>>
    calls,          \* Dial calls begun so far
    left,           \* calls still to come: [runs |-> RunLoop, dials |-> Dial]
    dial,           \* the Dial calls in progress: program counter and locals
    v2rayOP,        \* V2RayPoint.v2rayOP: who holds the mutex ("" = nobody)
    IsRunning,      \* V2RayPoint.IsRunning
    closeChan,      \* V2RayPoint.closeChan: a channel id, 0 = nil
    DomainName,     \* V2RayPoint.DomainName
    AsyncResolve,   \* V2RayPoint.AsyncResolve
    starts,         \* RunLoop calls so far that went on to prepare
    host,           \* the host thread calling RunLoop and StopLoop
    prep,           \* the prepareDomain closures, one per RunLoop
    watch,          \* the handleResolve goroutines, one per RunLoop
    panicked,       \* the Go panic the process died of ("" = it is alive)
    answer,         \* what the resolver answers to a lookupAddr called alone
    lookup,         \* how that lookupAddr returned ("" = not called yet)
    endpoint,       \* the resolved it returned
    ipLock,         \* endpoint.ipLock: the caller that holds it (0 = free)
    caller,         \* the goroutines calling endpoint.NextIP / currentIP
    hist,           \* history of endpoint.ipIdx (see NoHist)
    x,              \* the CoreController: coreInstance, IsRunning, statsManager
    coreMutex,      \* CoreController.coreMutex: the call that holds it (0 = free)
    insts,          \* the core instances core.New has made
    emitted,        \* the calls made on CallbackHandler, in order
    api,            \* the host's calls on the CoreController in progress
    ops,            \* calls on the CoreController begun so far
    lastOp,         \* the last StartLoop or StopLoop that returned
    outbound,       \* the MeasureOutboundDelay call
    reader          \* the call of the file reader InitCoreEnv installed

dialerVars == <<currentServer, resolveChan, preferIPv6, vServer, chans>>
osVars == <<fdTable, sock, conns>>
pointVarsButPrep == <<v2rayOP, IsRunning, closeChan, DomainName, AsyncResolve,
                      starts, host, watch>>
pointVars == <<v2rayOP, IsRunning, closeChan, DomainName, AsyncResolve,
               starts, host, prep, watch>>
unitVars == <<answer, lookup, endpoint, ipLock, caller, hist>>
coreVars == <<x, coreMutex, insts, emitted, api, ops, lastOp, outbound,
             reader>>
progVars == <<coreVars, left, dialerVars, osVars, calls, dial, v2rayOP, IsRunning,
              closeChan, DomainName, AsyncResolve, starts, host, prep, watch>>
vars == <<now, unitVars, coreVars, left, currentServer, resolveChan, preferIPv6, vServer, chans,
          fdTable, sock, conns, calls, dial, panicked,
          v2rayOP, IsRunning, closeChan, DomainName, AsyncResolve,
          starts, host, prep, watch>>

(***************************************************************************)
(* resolved                                                                *)
(***************************************************************************)
Since(t) == now - t

\* resolved.NextIP (under ipLock, so one step)
NextIP(r) ==
    IF Len(r.IPs) > 1
    THEN IF Since(r.lastSwitched) < Throttle
         THEN r
         ELSE LET idx == (r.ipIdx + 1) % 256
              IN [r EXCEPT !.lastSwitched = now,
                           !.ipIdx = IF idx >= Len(r.IPs) % 256 THEN 0 ELSE idx]
    ELSE r

\* resolved.currentIP (under ipLock); "" is the nil net.IP
currentIP(r) == IF Len(r.IPs) > 0 THEN r.IPs[r.ipIdx + 1] ELSE ""

SelectSeq4(s) == SelectSeq(s, LAMBDA ip : ip \in V4Addrs)
SelectSeq6(s) == SelectSeq(s, LAMBDA ip : ip \notin V4Addrs)

\* Mutant of lookupAddr: only the addresses of the preferred family are kept,
\* as in the lookupAddr of lines 80-111
lookupAddrPreferredOnly(addr, addrs, err, prefer6) ==
    IF err \/ Len(addrs) = 0
    THEN [ok |-> FALSE, rs |-> Nil]
    ELSE LET IPs == IF prefer6 THEN SelectSeq6(addrs) ELSE SelectSeq4(addrs)
         IN [ok |-> TRUE,
             rs |-> [domain |-> HostOf(addr), IPs |-> IPs, Port |-> PortOf(addr),
                     ipIdx |-> 0, lastResolved |-> now,
                     lastSwitched |-> ZeroTime]]

\* Mutant of lookupAddr: the IPv4 pass always comes first
lookupAddrV4First(addr, addrs, err, prefer6) ==
    IF err \/ Len(addrs) = 0
    THEN [ok |-> FALSE, rs |-> Nil]
    ELSE LET IPs == SelectSeq4(addrs) \o SelectSeq6(addrs)
         IN [ok |-> TRUE,
             rs |-> [domain |-> HostOf(addr), IPs |-> IPs, Port |-> PortOf(addr),
                     ipIdx |-> 0, lastResolved |-> now,
                     lastSwitched |-> ZeroTime]]

\* Mutant of lookupAddr: the last IPv6 pass is not guarded by !preferIPv6
lookupAddrV6Twice(addr, addrs, err, prefer6) ==
    IF err \/ Len(addrs) = 0
    THEN [ok |-> FALSE, rs |-> Nil]
    ELSE LET IPs == (IF prefer6 THEN SelectSeq6(addrs) ELSE <<>>)
                    \o SelectSeq4(addrs)
                    \o SelectSeq6(addrs)
         IN [ok |-> TRUE,
             rs |-> [domain |-> HostOf(addr), IPs |-> IPs, Port |-> PortOf(addr),
                     ipIdx |-> 0, lastResolved |-> now,
                     lastSwitched |-> ZeroTime]]

\* lookupAddr: addrs is what the resolver answered, err whether it failed
lookupAddr(addr, addrs, err, prefer6) ==
    IF err \/ Len(addrs) = 0
    THEN [ok |-> FALSE, rs |-> Nil]
    ELSE LET IPs == (IF prefer6 THEN SelectSeq6(addrs) ELSE <<>>)
                    \o SelectSeq4(addrs)
                    \o (IF ~prefer6 THEN SelectSeq6(addrs) ELSE <<>>)
         IN [ok |-> TRUE,
             rs |-> [domain |-> HostOf(addr), IPs |-> IPs, Port |-> PortOf(addr),
                     ipIdx |-> 0, lastResolved |-> now,
                     lastSwitched |-> ZeroTime]]

(***************************************************************************)
(* The kernel: descriptor table and sockets                                *)
(***************************************************************************)
\* protN: Protect calls made on the socket, protOK: those that returned true,
\* inOrder: no bind or connect was issued before a Protect returned true and
\* no Protect was issued after a bind or connect
NewSock == [protN |-> 0, protOK |-> 0, bound |-> FALSE, connected |-> FALSE,
            inOrder |-> TRUE]

FreeFds(t) == {f \in Fds : t[f] = 0}
\* POSIX: socket() and dup() return the lowest free number
LowestFree(t) == CHOOSE f \in FreeFds(t) : \A g \in FreeFds(t) : f <= g
\* number of descriptors that refer to socket s
Refs(t, s) == Cardinality({f \in Fds : t[f] = s})

\* close(2) by number: whatever the number refers to now is released
CloseFd(t, f) == [t EXCEPT ![f] = 0]
\* the kernel frees a socket with its last descriptor
Reap(sk, t) == [s \in Calls |-> IF Refs(t, s) = 0 THEN NewSock ELSE sk[s]]

(***************************************************************************)
(* ProtectedDialer.Dial.  dial[d] is a call in progress; id numbers the    *)
(* calls, and the socket a call creates carries the call's number.         *)
(*   fd    the local fd of Dial and fdConn (0 before getFd)                *)
(*   ip, port  the address and port handed to fdConn; ep the domain of     *)
(*         the resolved they were taken from                               *)
(*   looks, fresh  lookupAddr calls the Dial made, and the IPs of the      *)
(*         resolved the last of them returned                              *)
(*   conn  the descriptor number owned by the connection fdConn built      *)
(*   bc, closes, stray  history: a bind/connect was issued, close calls    *)
(*         issued on fd, a close hit a number that no longer referred to   *)
(*         the call's own socket                                           *)
(*   late  the caller's ctx ended while the call was blocked               *)
(***************************************************************************)
IdleDial == [pc |-> "idle", id |-> 0, dest |-> "", net |-> "", pinned |-> FALSE,
             pend |-> FALSE, waitCh |-> 0, fd |-> 0, ip |-> "", ep |-> "",
             port |-> 0, looks |-> 0, fresh |-> <<>>,
             err |-> "", res |-> "", conn |-> 0, connSock |-> 0,
             bc |-> FALSE, closes |-> 0, stray |-> FALSE, late |-> FALSE]

Return(d, result) == [dial EXCEPT ![d].pc = "done", ![d].res = result]

\* Dial, lines 394-400: Address == d.currentServer
DialBegin(d) ==
    /\ panicked = ""
    /\ dial[d].pc = "idle"
    /\ \A e \in Dials : e < d => dial[e].pc # "idle"
    /\ left.dials > 0
    /\ left' = [left EXCEPT !.dials = @ - 1]
    /\ calls' = calls + 1
    /\ \E dest \in Dests, net \in Nets :
          dial' = [dial EXCEPT ![d] = [IdleDial EXCEPT
                      !.id = calls + 1, !.dest = dest, !.net = net,
                      !.pinned = (dest = currentServer),
                      !.pc = IF dest = currentServer THEN "chk" ELSE "lookup"]]
    /\ UNCHANGED <<now, unitVars, coreVars, dialerVars, osVars, panicked, pointVars>>

\* line 401: if d.vServer == nil
DialCheck(d) ==
    /\ panicked = ""
    /\ dial[d].pc = "chk"
    /\ dial' = [dial EXCEPT ![d].pend = (vServer = Nil),
                            ![d].pc = IF vServer = Nil THEN "wait" ELSE "getfd"]
    /\ UNCHANGED <<now, unitVars, coreVars, left, dialerVars, osVars, calls, panicked, pointVars>>

\* line 403: the channel operand of <-d.resolveChan is read once
DialWait(d) ==
    /\ panicked = ""
    /\ dial[d].pc = "wait"
    /\ dial' = [dial EXCEPT ![d].waitCh = resolveChan, ![d].pc = "recv"]
    /\ UNCHANGED <<now, unitVars, coreVars, left, dialerVars, osVars, calls, panicked, pointVars>>

\* Mutant of DialRecv: the receive does not wait for the channel to be closed
DialRecvNoWait(d) ==
    /\ panicked = ""
    /\ dial[d].pc = "recv"
    /\ dial' = IF vServer = Nil THEN Return(d, "PrepareFailed")
                               ELSE [dial EXCEPT ![d].pc = "getfd"]
    /\ UNCHANGED <<now, unitVars, coreVars, left, dialerVars, osVars, calls, panicked, pointVars>>

\* Mutant of DialRecv: vServer is not read again after the receive, as in the
\* Dial of lines 145-165
DialRecvNoCheck(d) ==
    /\ panicked = ""
    /\ dial[d].pc = "recv"
    /\ dial[d].waitCh # 0
    /\ chans[dial[d].waitCh]
    /\ dial' = [dial EXCEPT ![d].pc = "getfd"]
    /\ UNCHANGED <<now, unitVars, coreVars, left, dialerVars, osVars, calls, panicked, pointVars>>

\* lines 403-409: the receive completes once the channel is closed (never on
\* a nil channel); then vServer is read again
DialRecv(d) ==
    /\ panicked = ""
    /\ dial[d].pc = "recv"
    /\ dial[d].waitCh # 0
    /\ chans[dial[d].waitCh]
    /\ dial' = IF vServer = Nil THEN Return(d, "PrepareFailed")
                               ELSE [dial EXCEPT ![d].pc = "getfd"]
    /\ UNCHANGED <<now, unitVars, coreVars, left, dialerVars, osVars, calls, panicked, pointVars>>

\* The ctx argument of Dial (line 391) ends: the caller cancels it or its
\* deadline passes (libv2ray_support_test.go lines 76-77) while the call is
\* blocked in the receive of line 403.  Dial never reads ctx, so nothing but
\* the record of the event changes.
DialCtxDone(d) ==
    /\ panicked = ""
    /\ dial[d].pc = "recv"
    /\ ~dial[d].late
    /\ dial[d].waitCh = 0 \/ ~chans[dial[d].waitCh]
    /\ dial' = [dial EXCEPT ![d].late = TRUE]
    /\ UNCHANGED <<now, unitVars, coreVars, left, dialerVars, osVars, calls, panicked, pointVars>>

\* Mutant of DialLookup: no lookup; the address and port are those of
\* d.vServer, as in the Dial of lines 145-165
DialLookupPinned(d) ==
    /\ panicked = ""
    /\ dial[d].pc = "lookup"
    /\ dial' = [dial EXCEPT ![d].pc = "getfd",
                            ![d].ip = currentIP(vServer),
                            ![d].ep = vServer.domain,
                            ![d].port = vServer.Port]
    /\ UNCHANGED <<now, unitVars, coreVars, left, dialerVars, osVars, calls, panicked, pointVars>>

\* lines 433-436 and the arguments of line 445: a destination other than the
\* primary is resolved afresh; resolved.IPs[0] (currentIP of a resolved whose
\* ipIdx is 0) and resolved.Port go to fdConn
DialLookup(d) ==
    /\ panicked = ""
    /\ dial[d].pc = "lookup"
    /\ \E addrs \in Answers, err \in BOOLEAN :
          LET r == lookupAddr(dial[d].dest, addrs, err, preferIPv6)
              looked == [dial EXCEPT ![d].looks = @ + 1]
          IN dial' = IF ~r.ok
                     THEN [looked EXCEPT ![d].pc = "done",
                                         ![d].res = "ResolveFailed"]
                     ELSE [looked EXCEPT ![d].pc = "getfd",
                                         ![d].ip = currentIP(r.rs),
                                         ![d].ep = r.rs.domain,
                                         ![d].port = r.rs.Port,
                                         ![d].fresh = r.rs.IPs]
    /\ UNCHANGED <<now, unitVars, coreVars, left, dialerVars, osVars, calls, panicked, pointVars>>

\* getFd, lines 373-383 (called at 416 and 438): unix.Socket.  A non-primary
\* dial then evaluates resolved.IPs[0], which panics on an empty list.
DialGetFd(d) ==
    /\ panicked = ""
    /\ dial[d].pc = "getfd"
    /\ IF FreeFds(fdTable) = {}
       THEN /\ dial' = Return(d, "SocketCreate")
            /\ UNCHANGED <<osVars, panicked>>
       ELSE LET f == LowestFree(fdTable)
            IN /\ fdTable' = [fdTable EXCEPT ![f] = dial[d].id]
               /\ sock' = [sock EXCEPT ![dial[d].id] = NewSock]
               /\ panicked' = IF ~dial[d].pinned /\ dial[d].ip = ""
                               THEN "index out of range" ELSE ""
               /\ dial' = [dial EXCEPT ![d].fd = f,
                              ![d].pc = IF dial[d].pinned THEN "curip"
                                        ELSE "protect"]
               /\ UNCHANGED conns
    /\ UNCHANGED <<now, unitVars, coreVars, left, dialerVars, calls, pointVars>>

\* lines 421-422: d.vServer.currentIP() and d.vServer.Port
DialCurIP(d) ==
    /\ panicked = ""
    /\ dial[d].pc = "curip"
    /\ IF vServer = Nil
       THEN panicked' = "nil dereference" /\ UNCHANGED dial
       ELSE /\ dial' = [dial EXCEPT ![d].ip = currentIP(vServer),
                                    ![d].ep = vServer.domain,
                                    ![d].port = vServer.Port,
                                    ![d].pc = "protect"]
            /\ UNCHANGED panicked
    /\ UNCHANGED <<now, unitVars, coreVars, left, dialerVars, osVars, calls, pointVars>>

\* Mutant of DialProtect: the answer of Protect is not acted upon
DialProtectIgnored(d) ==
    /\ panicked = ""
    /\ dial[d].pc = "protect"
    /\ \E ok \in BOOLEAN :
          LET s == fdTable[dial[d].fd]
          IN /\ sock' = IF s = 0 THEN sock
                        ELSE [sock EXCEPT
                               ![s].protN = @ + 1,
                               ![s].protOK = @ + (IF ok THEN 1 ELSE 0),
                               ![s].inOrder = @ /\ ~sock[s].bound
                                                /\ ~sock[s].connected]
             /\ dial' = [dial EXCEPT
                           ![d].err = IF ok THEN "" ELSE "ProtectFail",
                           ![d].pc = "bindconn"]
    /\ UNCHANGED <<now, unitVars, coreVars, left, dialerVars, fdTable, conns, calls, panicked,
                   pointVars>>

\* fdConn, lines 454-460: defer unix.Close(fd); d.Protect(fd).  The host
\* decides the answer; it marks whatever socket the number refers to.
DialProtect(d) ==
    /\ panicked = ""
    /\ dial[d].pc = "protect"
    /\ \E ok \in BOOLEAN :
          LET s == fdTable[dial[d].fd]
          IN /\ sock' = IF s = 0 THEN sock
                        ELSE [sock EXCEPT
                               ![s].protN = @ + 1,
                               ![s].protOK = @ + (IF ok THEN 1 ELSE 0),
                               ![s].inOrder = @ /\ ~sock[s].bound
                                                /\ ~sock[s].connected]
             /\ dial' = [dial EXCEPT
                           ![d].err = IF ok THEN "" ELSE "ProtectFail",
                           ![d].pc = IF ok THEN "bindconn" ELSE "close"]
    /\ UNCHANGED <<now, unitVars, coreVars, left, dialerVars, fdTable, conns, calls, panicked, pointVars>>

\* fdConn, lines 462-477: unix.Bind for UDP, unix.Connect for TCP.  EBADF on a
\* number that refers to nothing, EINVAL/EISCONN on a socket already
\* bound/connected, otherwise the network decides.
DialBindConnect(d) ==
    /\ panicked = ""
    /\ dial[d].pc = "bindconn"
    /\ \E netOK \in BOOLEAN :
          LET s == fdTable[dial[d].fd]
              udp == dial[d].net = "udp"
              ok == /\ s # 0
                    /\ netOK
                    /\ IF udp THEN ~sock[s].bound ELSE ~sock[s].connected
          IN /\ sock' = IF s = 0 THEN sock
                        ELSE [sock EXCEPT
                               ![s].inOrder = @ /\ sock[s].protOK > 0,
                               ![s].bound = @ \/ (ok /\ udp),
                               ![s].connected = @ \/ (ok /\ ~udp)]
             /\ dial' = [dial EXCEPT
                           ![d].bc = TRUE,
                           ![d].err = IF ok THEN ""
                                      ELSE IF udp THEN "Bind" ELSE "Connect",
                           ![d].pc = IF ok THEN "fileconn" ELSE "close"]
    /\ UNCHANGED <<now, unitVars, coreVars, left, dialerVars, fdTable, conns, calls, panicked, pointVars>>

\* fdConn, lines 479-507: os.NewFile(fd) wraps the number (it is nil only for
\* a negative fd, which getFd never returns); defer file.Close();
\* net.FileConn / net.FilePacketConn dup the descriptor into the connection
\* (and close the duplicate themselves when they fail).
DialFileConn(d) ==
    /\ panicked = ""
    /\ dial[d].pc = "fileconn"
    /\ \E wrapOK \in BOOLEAN :
          LET s == fdTable[dial[d].fd]
              ok == /\ s # 0
                    /\ wrapOK
                    /\ FreeFds(fdTable) # {}
              n == LowestFree(fdTable)
          IN IF ok
             THEN /\ fdTable' = [fdTable EXCEPT ![n] = s]
                  /\ dial' = [dial EXCEPT ![d].conn = n, ![d].connSock = s,
                                          ![d].pc = "fclose"]
             ELSE /\ fdTable' = fdTable
                  /\ dial' = [dial EXCEPT ![d].err = "FileConn",
                                          ![d].pc = "fclose"]
    /\ UNCHANGED <<now, unitVars, coreVars, left, dialerVars, sock, conns, calls, panicked, pointVars>>

\* the deferred file.Close() of line 485: close(fd)
DialFileClose(d) ==
    /\ panicked = ""
    /\ dial[d].pc = "fclose"
    /\ fdTable' = CloseFd(fdTable, dial[d].fd)
    /\ sock' = Reap(sock, fdTable')
    /\ dial' = [dial EXCEPT ![d].closes = @ + 1,
                            ![d].stray = @ \/ fdTable[dial[d].fd] # dial[d].id,
                            ![d].pc = "close"]
    /\ UNCHANGED <<now, unitVars, coreVars, left, dialerVars, conns, calls, panicked, pointVars>>

\* Mutant of DialClose: fdConn has no deferred unix.Close(fd)
DialCloseMissing(d) ==
    /\ panicked = ""
    /\ dial[d].pc = "close"
    /\ LET failed == dial[d].err # ""
       IN dial' = IF failed /\ dial[d].pinned
                  THEN [dial EXCEPT ![d].pc = "nextip"]
                  ELSE [dial EXCEPT ![d].pc = "done",
                          ![d].res = IF failed THEN dial[d].err ELSE "conn"]
    /\ UNCHANGED <<now, unitVars, coreVars, left, dialerVars, osVars, calls, panicked, pointVars>>

\* Mutant of DialClose: every failed Dial rotates the pinned endpoint, as the
\* Dial of lines 145-165 does
DialCloseRotateAlways(d) ==
    /\ panicked = ""
    /\ dial[d].pc = "close"
    /\ fdTable' = CloseFd(fdTable, dial[d].fd)
    /\ sock' = Reap(sock, fdTable')
    /\ LET failed == dial[d].err # ""
           after == [dial EXCEPT
                       ![d].closes = @ + 1,
                       ![d].stray = @ \/ fdTable[dial[d].fd] # dial[d].id]
       IN dial' = IF failed
                  THEN [after EXCEPT ![d].pc = "nextip"]
                  ELSE [after EXCEPT ![d].pc = "done", ![d].res = "conn"]
    /\ UNCHANGED <<now, unitVars, coreVars, left, dialerVars, conns, calls, panicked, pointVars>>

\* the deferred unix.Close(fd) of line 454, then fdConn returns to Dial:
\* lines 423-428 for the primary, line 445 for any other destination
DialClose(d) ==
    /\ panicked = ""
    /\ dial[d].pc = "close"
    /\ fdTable' = CloseFd(fdTable, dial[d].fd)
    /\ sock' = Reap(sock, fdTable')
    /\ LET failed == dial[d].err # ""
           after == [dial EXCEPT
                       ![d].closes = @ + 1,
                       ![d].stray = @ \/ fdTable[dial[d].fd] # dial[d].id]
       IN dial' = IF failed /\ dial[d].pinned
                  THEN [after EXCEPT ![d].pc = "nextip"]
                  ELSE [after EXCEPT ![d].pc = "done",
                          ![d].res = IF failed THEN dial[d].err ELSE "conn"]
    /\ UNCHANGED <<now, unitVars, coreVars, left, dialerVars, conns, calls, panicked, pointVars>>

\* lines 424-425: d.vServer.NextIP(); return nil, err
DialNextIP(d) ==
    /\ panicked = ""
    /\ dial[d].pc = "nextip"
    /\ IF vServer = Nil
       THEN panicked' = "nil dereference" /\ UNCHANGED <<dial, vServer>>
       ELSE /\ vServer' = NextIP(vServer)
            /\ dial' = Return(d, dial[d].err)
            /\ UNCHANGED panicked
    /\ UNCHANGED <<now, unitVars, coreVars, left, currentServer, resolveChan, preferIPv6, chans, osVars,
                   calls, pointVars>>

\* Dial has returned to the core: a connection it returned lives on in the
\* core, which owns its descriptor from now on
DialEnd(d) ==
    /\ panicked = ""
    /\ dial[d].pc = "done"
    /\ conns' = IF dial[d].res = "conn"
                THEN conns \cup {<<dial[d].conn, dial[d].connSock>>}
                ELSE conns
    /\ dial' = [dial EXCEPT ![d] = IdleDial]
    /\ UNCHANGED <<now, unitVars, coreVars, left, dialerVars, fdTable, sock, calls, panicked, pointVars>>

DialStep(d) ==
    \/ DialBegin(d)
    \/ DialCheck(d)
    \/ DialWait(d)
    \/ DialRecv(d)
    \/ DialCtxDone(d)
    \/ DialLookup(d)
    \/ DialGetFd(d)
    \/ DialCurIP(d)
    \/ DialProtect(d)
    \/ DialBindConnect(d)
    \/ DialFileConn(d)
    \/ DialFileClose(d)
    \/ DialClose(d)
    \/ DialNextIP(d)
    \/ DialEnd(d)

(***************************************************************************)
(* ProtectedDialer.PrepareDomain inside the prepareDomain closure of       *)
(* RunLoop (part_003 lines 82-85).  prep[k] belongs to the k-th RunLoop.   *)
(*   fired  close(resolveChan) calls the closure completed                 *)
(*   exit   how PrepareDomain returned                                     *)
(*   tries  lookupAddr calls the running PrepareDomain has made            *)
(***************************************************************************)
IdlePrep == [pc |-> "off", domain |-> "", closeCh |-> 0, pref |-> FALSE,
             maxRetry |-> 0, tries |-> 0, exit |-> "", fired |-> 0,
             firedCh |-> 0]

\* part_003 line 83: the arguments v.DomainName and v.closeChan are
\* evaluated when the closure runs
PrepArgs(k) ==
    /\ panicked = ""
    /\ prep[k].pc = "args"
    /\ prep' = [prep EXCEPT ![k].domain = DomainName, ![k].closeCh = closeChan,
                            ![k].pc = "set"]
    /\ UNCHANGED <<now, unitVars, coreVars, left, dialerVars, osVars, calls, dial, panicked, v2rayOP,
                   IsRunning, closeChan, DomainName, AsyncResolve,
                   starts, host, watch>>

\* PrepareDomain, lines 342-346
PrepSet(k) ==
    /\ panicked = ""
    /\ prep[k].pc = "set"
    /\ currentServer' = prep[k].domain
    /\ preferIPv6' = prep[k].pref
    /\ prep' = [prep EXCEPT ![k].maxRetry = MaxRetry, ![k].pc = "look"]
    /\ UNCHANGED <<now, unitVars, coreVars, left, resolveChan, vServer, chans, osVars, calls, dial,
                   panicked, v2rayOP, IsRunning, closeChan, DomainName,
                   AsyncResolve, starts, host, watch>>

\* PrepareDomain returns (lines 350, 360 and 369): its locals are gone
PrepReturn(k, how) ==
    [prep EXCEPT ![k] = [IdlePrep EXCEPT !.domain = prep[k].domain,
                                         !.exit = how, !.pc = "fire"]]

\* Mutant of PrepLookup: a failed lookup does not use up a retry
PrepLookupNoCount(k) ==
    /\ panicked = ""
    /\ prep[k].pc = "look"
    /\ IF prep[k].maxRetry = 0
       THEN /\ prep' = PrepReturn(k, "exhausted")
            /\ UNCHANGED vServer
       ELSE \E addrs \in Answers, err \in BOOLEAN :
              LET r == lookupAddr(prep[k].domain, addrs, err, preferIPv6)
              IN IF r.ok
                 THEN /\ vServer' = r.rs
                      /\ prep' = PrepReturn(k, "resolved")
                 ELSE /\ prep' = IF chans[prep[k].closeCh]
                                 THEN PrepReturn(k, "cancelled")
                                 ELSE [prep EXCEPT ![k].tries = @ + 1]
                      /\ UNCHANGED vServer
    /\ UNCHANGED <<now, unitVars, coreVars, left, currentServer, resolveChan, preferIPv6, chans,
                   osVars, calls, dial, panicked, pointVarsButPrep>>

\* PrepareDomain, lines 347-370: one turn of the loop.  A failed lookup
\* changes nothing another goroutine can see, so the turn is one step that
\* ends where its select ends: closeCh is closed (the timer wins only while
\* closeCh is still open), or the 2-second timer fires.
PrepLookup(k) ==
    /\ panicked = ""
    /\ prep[k].pc = "look"
    /\ IF prep[k].maxRetry = 0
       THEN /\ prep' = PrepReturn(k, "exhausted")
            /\ UNCHANGED vServer
       ELSE \E addrs \in Answers, err \in BOOLEAN :
              LET r == lookupAddr(prep[k].domain, addrs, err, preferIPv6)
              IN IF r.ok
                 THEN /\ vServer' = r.rs
                      /\ prep' = PrepReturn(k, "resolved")
                 ELSE /\ prep' = IF chans[prep[k].closeCh]
                                 THEN PrepReturn(k, "cancelled")
                                 ELSE [prep EXCEPT ![k].maxRetry = @ - 1,
                                                   ![k].tries = @ + 1]
                      /\ UNCHANGED vServer
    /\ UNCHANGED <<now, unitVars, coreVars, left, currentServer, resolveChan, preferIPv6, chans,
                   osVars, calls, dial, panicked, pointVarsButPrep>>

\* part_003 line 84: close(v.dialer.ResolveChan()).  The field is read now;
\* closing a closed (or nil) channel panics.
PrepFire(k) ==
    /\ panicked = ""
    /\ prep[k].pc = "fire"
    /\ IF resolveChan = 0 \/ chans[resolveChan]
       THEN /\ panicked' = "close of closed channel"
            /\ prep' = [prep EXCEPT ![k].pc = "done"]
            /\ UNCHANGED chans
       ELSE /\ chans' = [chans EXCEPT ![resolveChan] = TRUE]
            /\ prep' = [prep EXCEPT ![k].fired = @ + 1,
                                    ![k].firedCh = resolveChan,
                                    ![k].pc = "done"]
            /\ UNCHANGED panicked
    /\ UNCHANGED <<now, unitVars, coreVars, left, currentServer, resolveChan, preferIPv6, vServer, osVars,
                   calls, dial, pointVarsButPrep>>

PrepStep(k) ==
    \/ PrepArgs(k)
    \/ PrepSet(k)
    \/ PrepLookup(k)
    \/ PrepFire(k)

(***************************************************************************)
(* V2RayPoint.RunLoop and StopLoop, called by the host thread              *)
(***************************************************************************)
IdleHost == [pc |-> "idle", k |-> 0]

\* StopLoop's body under the mutex, part_003 lines 114-118, with
\* shutdownInit (lines 134-139)
StopBody ==
    IF IsRunning
    THEN /\ chans' = [chans EXCEPT ![closeChan] = TRUE]
         /\ IsRunning' = FALSE
    ELSE UNCHANGED <<chans, IsRunning>>

\* RunLoop, part_003 lines 70-77.  The host sets the public field DomainName
\* before the call.
RunLoopEnter ==
    /\ panicked = ""
    /\ host.pc = "idle"
    /\ v2rayOP = ""
    /\ left.runs > 0
    /\ ~IsRunning
    /\ left' = [left EXCEPT !.runs = @ - 1]
    /\ \E dom \in (IF starts = 0 THEN {"a:1"} ELSE Dests), pref \in BOOLEAN :
          /\ DomainName' = dom
          /\ prep' = [prep EXCEPT ![starts + 1].pref = pref]
    /\ v2rayOP' = "host"
    /\ starts' = starts + 1
    /\ closeChan' = 2 * starts + 1
    /\ host' = [pc |-> "prc", k |-> starts + 1]
    /\ UNCHANGED <<now, unitVars, coreVars, dialerVars, osVars, calls, dial, panicked, IsRunning,
                   AsyncResolve, watch>>

\* RunLoop, part_003 lines 78-80: PrepareResolveChan; go v.handleResolve()
RunLoopResolveChan ==
    /\ panicked = ""
    /\ host.pc = "prc"
    /\ resolveChan' = 2 * host.k
    /\ watch' = [watch EXCEPT ![host.k].pc = "sel"]
    /\ host' = [host EXCEPT !.pc = "prep"]
    /\ UNCHANGED <<now, unitVars, coreVars, left, currentServer, preferIPv6, vServer, chans, osVars, calls,
                   dial, panicked, v2rayOP, IsRunning, closeChan, DomainName,
                   AsyncResolve, starts, prep>>

\* RunLoop, part_003 lines 87-91: go prepareDomain() or prepareDomain()
RunLoopPrepare ==
    /\ panicked = ""
    /\ host.pc = "prep"
    /\ prep' = [prep EXCEPT ![host.k].pc = "args"]
    /\ host' = [host EXCEPT !.pc = IF AsyncResolve THEN "loop" ELSE "sync"]
    /\ UNCHANGED <<now, unitVars, coreVars, left, dialerVars, osVars, calls, dial, panicked, v2rayOP,
                   IsRunning, closeChan, DomainName, AsyncResolve,
                   starts, watch>>

\* Mutant of RunLoopPrepared: RunLoop also waits for its handleResolve
\* goroutine to end
RunLoopPreparedJoin ==
    /\ panicked = ""
    /\ host.pc = "sync"
    /\ prep[host.k].pc = "done"
    /\ watch[host.k].pc = "done"
    /\ host' = [host EXCEPT !.pc = "loop"]
    /\ UNCHANGED <<now, unitVars, coreVars, left, dialerVars, osVars, calls, dial, panicked, v2rayOP,
                   IsRunning, closeChan, DomainName, AsyncResolve,
                   starts, prep, watch>>

\* RunLoop, part_003 line 90: the synchronous prepareDomain() has returned
RunLoopPrepared ==
    /\ panicked = ""
    /\ host.pc = "sync"
    /\ prep[host.k].pc = "done"
    /\ host' = [host EXCEPT !.pc = "loop"]
    /\ UNCHANGED <<now, unitVars, coreVars, left, dialerVars, osVars, calls, dial, panicked, v2rayOP,
                   IsRunning, closeChan, DomainName, AsyncResolve,
                   starts, prep, watch>>

\* RunLoop, part_003 lines 93-94 with pointloop (lines 141-170) and the
\* deferred Unlock.  The core decides how far pointloop gets:
\*   "config"  LoadJSONConfig fails     "new"  v2core.New fails
\*   "start"   the core's Start fails      "ok"   the core runs
RunLoopPointloop ==
    /\ panicked = ""
    /\ host.pc = "loop"
    /\ \E outcome \in {"config", "new", "start", "ok"} :
          IsRunning' = (outcome = "ok")
    /\ v2rayOP' = ""
    /\ host' = IdleHost
    /\ UNCHANGED <<now, unitVars, coreVars, left, dialerVars, osVars, calls, dial, panicked, closeChan,
                   DomainName, AsyncResolve, starts, prep, watch>>

\* StopLoop called by the host, part_003 lines 111-120
StopLoop ==
    /\ panicked = ""
    /\ host.pc = "idle"
    /\ v2rayOP = ""
    /\ IsRunning
    /\ StopBody
    /\ UNCHANGED <<now, unitVars, coreVars, left, currentServer, resolveChan, preferIPv6, vServer, osVars,
                   calls, dial, panicked, v2rayOP, closeChan, DomainName,
                   AsyncResolve, starts, host, prep, watch>>

(***************************************************************************)
(* V2RayPoint.handleResolve, part_003 lines 97-107; watch[k] is the        *)
(* goroutine the k-th RunLoop started                                      *)
(*   shutdown  SupportSet.Shutdown() calls the goroutine has made          *)
(***************************************************************************)
IdleWatch == [pc |-> "off", rch |-> 0, cch |-> 0, shutdown |-> 0]

\* lines 98-99 and 105: the channel operands of the select are read once
WatchSelect(k) ==
    /\ panicked = ""
    /\ watch[k].pc = "sel"
    /\ watch' = [watch EXCEPT ![k].rch = resolveChan, ![k].cch = closeChan,
                              ![k].pc = "blk"]
    /\ UNCHANGED <<now, unitVars, coreVars, left, dialerVars, osVars, calls, dial, panicked, v2rayOP,
                   IsRunning, closeChan, DomainName, AsyncResolve,
                   starts, host, prep>>

\* lines 99-100: the resolve channel is closed; IsVServerReady
WatchResolved(k) ==
    /\ panicked = ""
    /\ watch[k].pc = "blk"
    /\ chans[watch[k].rch]
    /\ watch' = [watch EXCEPT ![k] = [IdleWatch EXCEPT
                          !.pc = IF vServer = Nil THEN "stop" ELSE "done"]]
    /\ UNCHANGED <<now, unitVars, coreVars, left, dialerVars, osVars, calls, dial, panicked, v2rayOP,
                   IsRunning, closeChan, DomainName, AsyncResolve,
                   starts, host, prep>>

\* line 105: the close channel is closed
WatchClosed(k) ==
    /\ panicked = ""
    /\ watch[k].pc = "blk"
    /\ chans[watch[k].cch]
    /\ watch' = [watch EXCEPT ![k] = [IdleWatch EXCEPT !.pc = "done"]]
    /\ UNCHANGED <<now, unitVars, coreVars, left, dialerVars, osVars, calls, dial, panicked, v2rayOP,
                   IsRunning, closeChan, DomainName, AsyncResolve,
                   starts, host, prep>>

\* lines 102-103: v.StopLoop(); v.SupportSet.Shutdown()
WatchStopLoop(k) ==
    /\ panicked = ""
    /\ watch[k].pc = "stop"
    /\ v2rayOP = ""
    /\ StopBody
    /\ watch' = [watch EXCEPT ![k].pc = "done", ![k].shutdown = @ + 1]
    /\ UNCHANGED <<now, unitVars, coreVars, left, currentServer, resolveChan, preferIPv6, vServer, osVars,
                   calls, dial, panicked, v2rayOP, closeChan, DomainName,
                   AsyncResolve, starts, host, prep>>

WatchStep(k) ==
    \/ WatchSelect(k)
    \/ WatchResolved(k)
    \/ WatchClosed(k)
    \/ WatchStopLoop(k)

(***************************************************************************)
(* lookupAddr, resolved.NextIP and resolved.currentIP called alone, as the *)
(* tests of libv2ray_support_test.go call them: one lookupAddr builds the  *)
(* endpoint, then NumCallers goroutines call NextIP and currentIP on it    *)
(* while the clock runs.  Here the two methods are taken apart into the    *)
(* steps other goroutines could see if ipLock did not keep them out.       *)
(*   hist.last, hist.prev  the instants of the last two r.ipIdx++          *)
(*   hist.committed        ipIdx as the last NextIP that returned left it  *)
(*   caller[c].got, .saw   what the caller's last currentIP returned, and  *)
(*                         hist.committed when it read                     *)
(***************************************************************************)
IdleCaller == [pc |-> "idle", op |-> "", got |-> "", saw |-> 0]
NoHist == [prev |-> ZeroTime, last |-> ZeroTime, committed |-> 0]

\* no lookupAddr has been called alone
NoUnit ==
    /\ answer = [addrs |-> <<>>, err |-> FALSE]
    /\ lookup = ""
    /\ endpoint = Nil
    /\ ipLock = 0
    /\ caller = [c \in Callers |-> IdleCaller]
    /\ hist = NoHist

\* time passes
Tick ==
    /\ now < MaxNow
    /\ now' = now + 1
    /\ UNCHANGED <<unitVars, progVars, panicked>>

\* a throttle period passes
Wait ==
    /\ now < Throttle * MaxTurns
    /\ now' = now + Throttle
    /\ UNCHANGED <<unitVars, progVars, panicked>>

\* the lists a resolved may hold: the k-th address is k
ListLens == {1, 2, 3, Width - 1, Width, Width + 1}
Lists == {[Nil EXCEPT !.domain = "a", !.Port = 1, !.IPs = [k \in 1..n |-> k]] :
             n \in ListLens}

\* d.lookupAddr("a:1"), lines 278-338, with the resolver's answer
UnitLookup ==
    /\ panicked = ""
    /\ lookup = ""
    /\ LET res == lookupAddr("a:1", answer.addrs, answer.err, preferIPv6)
       IN /\ lookup' = IF res.ok THEN "ok" ELSE "error"
          /\ endpoint' = res.rs
    /\ UNCHANGED <<now, answer, ipLock, caller, hist, progVars, panicked>>

\* a goroutine calls r.NextIP() or r.currentIP() on the endpoint it was given
UnitCall(c) ==
    /\ panicked = ""
    /\ lookup = "ok"
    /\ caller[c].pc = "idle"
    /\ \E op \in {"NextIP", "currentIP"} :
          caller' = [caller EXCEPT ![c] = [IdleCaller EXCEPT !.op = op,
                                                             !.pc = "lock"]]
    /\ UNCHANGED <<now, answer, lookup, endpoint, ipLock, hist, progVars,
                   panicked>>

\* Mutant of UnitLock: Lock returns although another goroutine holds ipLock
UnitLockNoWait(c) ==
    /\ panicked = ""
    /\ caller[c].pc = "lock"
    /\ ipLock' = c
    /\ caller' = [caller EXCEPT ![c].pc = IF caller[c].op = "NextIP"
                                          THEN "switch" ELSE "read"]
    /\ UNCHANGED <<now, answer, lookup, endpoint, hist, progVars, panicked>>

\* r.ipLock.Lock(), lines 208 and 234
UnitLock(c) ==
    /\ panicked = ""
    /\ caller[c].pc = "lock"
    /\ ipLock = 0
    /\ ipLock' = c
    /\ caller' = [caller EXCEPT ![c].pc = IF caller[c].op = "NextIP"
                                          THEN "switch" ELSE "read"]
    /\ UNCHANGED <<now, answer, lookup, endpoint, hist, progVars, panicked>>

\* Mutant of UnitSwitch: NextIP without the throttle of lines 213-218
UnitSwitchNoThrottle(c) ==
    /\ panicked = ""
    /\ caller[c].pc = "switch"
    /\ IF Len(endpoint.IPs) > 1
       THEN /\ endpoint' = [endpoint EXCEPT !.lastSwitched = now,
                                            !.ipIdx = (@ + 1) % 256]
            /\ hist' = [hist EXCEPT !.prev = hist.last, !.last = now]
            /\ caller' = [caller EXCEPT ![c].pc = "wrap"]
            /\ UNCHANGED ipLock
       ELSE /\ ipLock' = 0
            /\ caller' = [caller EXCEPT ![c].pc = "idle"]
            /\ UNCHANGED <<endpoint, hist>>
    /\ UNCHANGED <<now, answer, lookup, progVars, panicked>>

\* NextIP, lines 211-224: the throttle, r.lastSwitched = now, r.ipIdx++ (a
\* uint8); the two returns run the deferred Unlock
UnitSwitch(c) ==
    /\ panicked = ""
    /\ caller[c].pc = "switch"
    /\ IF Len(endpoint.IPs) > 1 /\ ~(Since(endpoint.lastSwitched) < Throttle)
       THEN /\ endpoint' = [endpoint EXCEPT !.lastSwitched = now,
                                            !.ipIdx = (@ + 1) % 256]
            /\ hist' = [hist EXCEPT !.prev = hist.last, !.last = now]
            /\ caller' = [caller EXCEPT ![c].pc = "wrap"]
            /\ UNCHANGED ipLock
       ELSE /\ ipLock' = 0
            /\ caller' = [caller EXCEPT ![c].pc = "idle"]
            /\ UNCHANGED <<endpoint, hist>>
    /\ UNCHANGED <<now, answer, lookup, progVars, panicked>>

\* NextIP, lines 226-231: the wrap to 0 and the deferred Unlock
UnitWrap(c) ==
    /\ panicked = ""
    /\ caller[c].pc = "wrap"
    /\ LET idx == IF endpoint.ipIdx >= Len(endpoint.IPs) % 256
                  THEN 0 ELSE endpoint.ipIdx
       IN /\ endpoint' = [endpoint EXCEPT !.ipIdx = idx]
          /\ hist' = [hist EXCEPT !.committed = idx]
    /\ ipLock' = 0
    /\ caller' = [caller EXCEPT ![c].pc = "idle"]
    /\ UNCHANGED <<now, answer, lookup, progVars, panicked>>

\* currentIP, lines 235-241: r.IPs[r.ipIdx] (an index beyond the slice
\* panics) and the deferred Unlock
UnitRead(c) ==
    /\ panicked = ""
    /\ caller[c].pc = "read"
    /\ IF Len(endpoint.IPs) > 0 /\ endpoint.ipIdx >= Len(endpoint.IPs)
       THEN /\ panicked' = "index out of range"
            /\ UNCHANGED caller
       ELSE /\ caller' = [caller EXCEPT ![c].got = currentIP(endpoint),
                                        ![c].saw = hist.committed,
                                        ![c].pc = "idle"]
            /\ UNCHANGED panicked
    /\ ipLock' = 0
    /\ UNCHANGED <<now, answer, lookup, endpoint, hist, progVars>>

UnitStep(c) ==
    \/ UnitCall(c)
    \/ UnitLock(c)
    \/ UnitSwitch(c)
    \/ UnitWrap(c)
    \/ UnitRead(c)

(***************************************************************************)
(* CoreController (src/libv2ray_main.go, lines 1-347).  The host calls     *)
(* StartLoop and StopLoop from any of its threads; api[c] is the call of   *)
(* thread c.  The fields IsRunning, coreInstance and statsManager are read *)
(* by the host, by QueryStats and by MeasureDelay without coreMutex, so    *)
(* every write to them is a step of its own.                               *)
(*   insts[i]   the i-th instance core.New returned: was its Start         *)
(*              successful, has Close been called on it                    *)
(*   insts[i].value  the traffic counter of the instance's stats manager,  *)
(*              with the traffic ever added to it and ever returned by     *)
(*              QueryStats                                                 *)
(*   emitted    <<method, instance>> for every CallbackHandler call        *)
(*   api[c].found  the call found nothing to do (StartLoop on a running,   *)
(*              StopLoop on a stopped controller, QueryStats without a     *)
(*              stats manager)                                             *)
(*   api[c].inst   the instance the call works on; api[c].val the number   *)
(*              it returned (minDuration while measureInstDelay runs)      *)
(*   api[c].ctx    the context of MeasureDelay: "live", "expired" once the *)
(*              12 seconds are over, "cancelled"; after the return, the    *)
(*              state measureInstDelay returned in                         *)
(*   api[c].got    the HTTP exchanges measureInstDelay has made, each with *)
(*              how it ended and the milliseconds it took                  *)
(*   api[c].stopped  a StopLoop shut the core down while measureInstDelay  *)
(*              was running                                                *)
(***************************************************************************)
IdleApi == [pc |-> "idle", op |-> "", found |-> FALSE, ret |-> "", inst |-> 0,
            tag |-> "", val |-> 0, ctx |-> "", i |-> 0, got |-> <<>>,
            success |-> FALSE, stopped |-> FALSE]
NewInst == [started |-> FALSE, closed |-> FALSE,
            value |-> 0, added |-> 0, returned |-> 0]

\* the outbound tags QueryStats is asked about; the configuration has a
\* traffic counter for the first only
Tags == {"proxy", "direct"}
HasCounter(tag) == tag = "proxy"

\* no MeasureOutboundDelay has been called
NoConfig == [App |-> <<>>, Inbound |-> <<>>]
IdleOutbound == [pc |-> "idle", input |-> NoConfig, config |-> NoConfig,
                 inst |-> "", ret |-> ""]

\* the file reader has not been called
IdleReader == [pc |-> "idle", envPath |-> <<>>, path |-> <<>>,
               opened |-> <<>>, ret |-> ""]

\* NewCoreController, lines 94-108
NoCore ==
    /\ x = [coreInstance |-> 0, IsRunning |-> FALSE, statsManager |-> 0]
    /\ coreMutex = 0
    /\ insts = <<>>
    /\ emitted = <<>>
    /\ api = [c \in Callers |-> IdleApi]
    /\ ops = 0
    /\ lastOp = ""
    /\ outbound = IdleOutbound
    /\ reader = IdleReader

\* a call returns to the host
CoreReturn(c, result) == [api EXCEPT ![c].pc = "idle", ![c].ret = result]

\* the host calls StartLoop or StopLoop
CoreCall(c) ==
    /\ panicked = ""
    /\ api[c].pc = "idle"
    /\ ops < MaxOps
    /\ ops' = ops + 1
    /\ \E op \in {"StartLoop", "StopLoop"} :
          api' = [api EXCEPT ![c] = [IdleApi EXCEPT !.op = op, !.pc = "lock"]]
    /\ UNCHANGED <<now, unitVars, outbound, reader, x, coreMutex, insts, emitted, lastOp, left,
                   dialerVars, osVars, calls, dial, panicked, pointVars>>

\* Mutant of StartLock: StartLoop does not test IsRunning
StartLockNoCheck(c) ==
    /\ panicked = ""
    /\ api[c].pc = "lock"
    /\ api[c].op = "StartLoop"
    /\ coreMutex = 0
    /\ coreMutex' = c
    /\ api' = [api EXCEPT ![c].pc = "new", ![c].found = x.IsRunning]
    /\ UNCHANGED <<now, unitVars, outbound, reader, x, insts, emitted, ops, lastOp, left,
                   dialerVars, osVars, calls, dial, panicked, pointVars>>

\* StartLoop, lines 117-123: Lock; if x.IsRunning, return nil (with the
\* deferred Unlock)
StartLock(c) ==
    /\ panicked = ""
    /\ api[c].pc = "lock"
    /\ api[c].op = "StartLoop"
    /\ coreMutex = 0
    /\ IF x.IsRunning
       THEN /\ api' = [CoreReturn(c, "nil") EXCEPT ![c].found = TRUE]
            /\ lastOp' = "StartLoop"
            /\ UNCHANGED coreMutex
       ELSE /\ coreMutex' = c
            /\ api' = [api EXCEPT ![c].pc = "new"]
            /\ UNCHANGED lastOp
    /\ UNCHANGED <<now, unitVars, outbound, reader, x, insts, emitted, ops, left,
                   dialerVars, osVars, calls, dial, panicked, pointVars>>

\* doStartLoop, lines 217-226: LoadJSONConfig, core.New (nil on error),
\* GetFeature.  The configuration decides how far it gets.
StartNew(c) ==
    /\ panicked = ""
    /\ api[c].pc = "new"
    /\ \E outcome \in {"config", "new", "ok"} :
          IF outcome = "config"
          THEN /\ api' = CoreReturn(c, "config error")
               /\ coreMutex' = 0
               /\ lastOp' = "StartLoop"
               /\ UNCHANGED <<x, insts>>
          ELSE IF outcome = "new"
          THEN /\ x' = [x EXCEPT !.coreInstance = 0]
               /\ api' = CoreReturn(c, "core init failed")
               /\ coreMutex' = 0
               /\ lastOp' = "StartLoop"
               /\ UNCHANGED insts
          ELSE /\ insts' = Append(insts, NewInst)
               /\ x' = [x EXCEPT !.coreInstance = Len(insts) + 1,
                                 !.statsManager = Len(insts) + 1]
               /\ api' = [api EXCEPT ![c].pc = "run",
                                     ![c].inst = Len(insts) + 1]
               /\ UNCHANGED <<coreMutex, lastOp>>
    /\ UNCHANGED <<now, unitVars, outbound, reader, emitted, ops, left,
                   dialerVars, osVars, calls, dial, panicked, pointVars>>

\* doStartLoop, line 229: x.IsRunning = true
StartRun(c) ==
    /\ panicked = ""
    /\ api[c].pc = "run"
    /\ x' = [x EXCEPT !.IsRunning = TRUE]
    /\ api' = [api EXCEPT ![c].pc = "start"]
    /\ UNCHANGED <<now, unitVars, outbound, reader, coreMutex, insts, emitted, ops, lastOp, left,
                   dialerVars, osVars, calls, dial, panicked, pointVars>>

\* Mutant of StartCore: the error of Start is not looked at
StartCoreNoErrCheck(c) ==
    /\ panicked = ""
    /\ api[c].pc = "start"
    /\ \E ok \in BOOLEAN :
          insts' = [insts EXCEPT ![api[c].inst].started = ok]
    /\ api' = [api EXCEPT ![c].pc = "startup"]
    /\ UNCHANGED <<now, unitVars, outbound, reader, x, coreMutex, emitted, ops, lastOp, left,
                   dialerVars, osVars, calls, dial, panicked, pointVars>>

\* doStartLoop, line 230: x.coreInstance.Start()
StartCore(c) ==
    /\ panicked = ""
    /\ api[c].pc = "start"
    /\ \E ok \in BOOLEAN :
          /\ insts' = [insts EXCEPT ![api[c].inst].started = ok]
          /\ api' = [api EXCEPT ![c].pc = IF ok THEN "startup" ELSE "failed"]
    /\ UNCHANGED <<now, unitVars, outbound, reader, x, coreMutex, emitted, ops, lastOp, left,
                   dialerVars, osVars, calls, dial, panicked, pointVars>>

\* doStartLoop, lines 231-232: x.IsRunning = false; return the error
StartFailed(c) ==
    /\ panicked = ""
    /\ api[c].pc = "failed"
    /\ x' = [x EXCEPT !.IsRunning = FALSE]
    /\ api' = CoreReturn(c, "startup failed")
    /\ coreMutex' = 0
    /\ lastOp' = "StartLoop"
    /\ UNCHANGED <<now, unitVars, outbound, reader, insts, emitted, ops, left,
                   dialerVars, osVars, calls, dial, panicked, pointVars>>

\* doStartLoop, line 235: x.CallbackHandler.Startup()
StartStartup(c) ==
    /\ panicked = ""
    /\ api[c].pc = "startup"
    /\ emitted' = Append(emitted, <<"Startup", api[c].inst>>)
    /\ api' = [api EXCEPT ![c].pc = "status"]
    /\ UNCHANGED <<now, unitVars, outbound, reader, x, coreMutex, insts, ops, lastOp, left,
                   dialerVars, osVars, calls, dial, panicked, pointVars>>

\* doStartLoop, lines 236-239: OnEmitStatus(0, "Started successfully,
\* running"); return nil
StartStatus(c) ==
    /\ panicked = ""
    /\ api[c].pc = "status"
    /\ emitted' = Append(emitted, <<"Started", api[c].inst>>)
    /\ api' = CoreReturn(c, "nil")
    /\ coreMutex' = 0
    /\ lastOp' = "StartLoop"
    /\ UNCHANGED <<now, unitVars, outbound, reader, x, insts, ops, left,
                   dialerVars, osVars, calls, dial, panicked, pointVars>>

\* StopLoop, lines 131-134 and 138: Lock; if not x.IsRunning, return nil
StopLock(c) ==
    /\ panicked = ""
    /\ api[c].pc = "lock"
    /\ api[c].op = "StopLoop"
    /\ coreMutex = 0
    /\ IF ~x.IsRunning
       THEN /\ api' = [CoreReturn(c, "nil") EXCEPT ![c].found = TRUE]
            /\ lastOp' = "StopLoop"
            /\ UNCHANGED coreMutex
       ELSE /\ coreMutex' = c
            /\ api' = [api EXCEPT ![c].pc = "shutdown"]
            /\ UNCHANGED lastOp
    /\ UNCHANGED <<now, unitVars, outbound, reader, x, insts, emitted, ops, left,
                   dialerVars, osVars, calls, dial, panicked, pointVars>>

\* doShutdown, lines 203-212
StopShutdown(c) ==
    /\ panicked = ""
    /\ api[c].pc = "shutdown"
    /\ insts' = IF x.coreInstance # 0
                THEN [insts EXCEPT ![x.coreInstance].closed = TRUE]
                ELSE insts
    /\ x' = [coreInstance |-> 0, IsRunning |-> FALSE, statsManager |-> 0]
    /\ api' = [e \in Callers |->
                IF e = c
                THEN [api[c] EXCEPT !.pc = "emit", !.inst = x.coreInstance]
                ELSE IF api[e].pc \in {"select", "do", "finish"}
                THEN [api[e] EXCEPT !.stopped = TRUE]
                ELSE api[e]]
    /\ UNCHANGED <<now, unitVars, outbound, reader, coreMutex, emitted, ops, lastOp, left,
                   dialerVars, osVars, calls, dial, panicked, pointVars>>

\* StopLoop, lines 136-138: OnEmitStatus(0, "Core stopped"); return nil
StopEmit(c) ==
    /\ panicked = ""
    /\ api[c].pc = "emit"
    /\ emitted' = Append(emitted, <<"Stopped", api[c].inst>>)
    /\ api' = CoreReturn(c, "nil")
    /\ coreMutex' = 0
    /\ lastOp' = "StopLoop"
    /\ UNCHANGED <<now, unitVars, outbound, reader, x, insts, ops, left,
                   dialerVars, osVars, calls, dial, panicked, pointVars>>

\* the host calls QueryStats(tag, direct)
QueryCall(c) ==
    /\ panicked = ""
    /\ api[c].pc = "idle"
    /\ ops < MaxOps
    /\ ops' = ops + 1
    /\ \E tag \in Tags :
          api' = [api EXCEPT ![c] = [IdleApi EXCEPT !.op = "QueryStats",
                                                    !.pc = "check",
                                                    !.tag = tag]]
    /\ UNCHANGED <<now, unitVars, outbound, reader, x, coreMutex, insts, emitted, lastOp, left,
                   dialerVars, osVars, calls, dial, panicked, pointVars>>

\* QueryStats, lines 145-147: if x.statsManager == nil, return 0.  The field
\* is read without coreMutex.
QueryCheck(c) ==
    /\ panicked = ""
    /\ api[c].pc = "check"
    /\ api' = IF x.statsManager = 0
              THEN [CoreReturn(c, "value") EXCEPT ![c].found = TRUE]
              ELSE [api EXCEPT ![c].pc = "counter", ![c].inst = x.statsManager]
    /\ UNCHANGED <<now, unitVars, outbound, reader, x, coreMutex, insts, emitted, ops, lastOp,
                   left, dialerVars, osVars, calls, dial, panicked, pointVars>>

\* QueryStats, lines 148-151: x.statsManager.GetCounter(name); return 0 if
\* there is none.  The field is read a second time, again without
\* coreMutex: the build may use the value read at line 145 or read anew,
\* and GetCounter on a nil manager panics.
QueryCounter(c) ==
    /\ panicked = ""
    /\ api[c].pc = "counter"
    /\ \E sm \in {api[c].inst, x.statsManager} :
          IF sm = 0
          THEN panicked' = "nil dereference" /\ UNCHANGED api
          ELSE /\ api' = IF HasCounter(api[c].tag)
                         THEN [api EXCEPT ![c].pc = "set", ![c].inst = sm]
                         ELSE [CoreReturn(c, "value") EXCEPT ![c].inst = sm]
               /\ UNCHANGED panicked
    /\ UNCHANGED <<now, unitVars, outbound, reader, x, coreMutex, insts, emitted, ops, lastOp,
                   left, dialerVars, osVars, calls, dial, pointVars>>

\* Mutant of QuerySet: the counter is read and then reset in two steps
QuerySetTorn(c) ==
    /\ panicked = ""
    /\ \/ /\ api[c].pc = "set"
          /\ api' = [api EXCEPT ![c].pc = "reset",
                                ![c].val = insts[api[c].inst].value]
          /\ UNCHANGED insts
       \/ /\ api[c].pc = "reset"
          /\ insts' = [insts EXCEPT ![api[c].inst].value = 0,
                                    ![api[c].inst].returned = @ + api[c].val]
          /\ api' = CoreReturn(c, "value")
    /\ UNCHANGED <<now, unitVars, outbound, reader, x, coreMutex, emitted, ops, lastOp, left,
                   dialerVars, osVars, calls, dial, panicked, pointVars>>

\* QueryStats, line 152: return counter.Set(0).  Set swaps the value in one
\* atomic operation and returns the old one.
QuerySet(c) ==
    /\ panicked = ""
    /\ api[c].pc = "set"
    /\ insts' = [insts EXCEPT ![api[c].inst].value = 0,
                              ![api[c].inst].returned =
                                  @ + insts[api[c].inst].value]
    /\ api' = [CoreReturn(c, "value") EXCEPT
                  ![c].val = insts[api[c].inst].value]
    /\ UNCHANGED <<now, unitVars, outbound, reader, x, coreMutex, emitted, ops, lastOp, left,
                   dialerVars, osVars, calls, dial, panicked, pointVars>>

\* the running core adds the bytes of a transfer to the counter
CoreTraffic ==
    /\ panicked = ""
    /\ \E i \in 1..Len(insts) :
          /\ insts[i].started /\ ~insts[i].closed
          /\ insts[i].added < MaxTraffic
          /\ insts' = [insts EXCEPT ![i].value = @ + 1, ![i].added = @ + 1]
    /\ UNCHANGED <<now, unitVars, outbound, reader, x, coreMutex, emitted, api, ops, lastOp, left,
                   dialerVars, osVars, calls, dial, panicked, pointVars>>

CoreStep(c) ==
    \/ CoreCall(c)
    \/ StartLock(c)
    \/ StartNew(c)
    \/ StartRun(c)
    \/ StartCore(c)
    \/ StartFailed(c)
    \/ StartStartup(c)
    \/ StartStatus(c)
    \/ StopLock(c)
    \/ StopShutdown(c)
    \/ StopEmit(c)

QueryStep(c) ==
    \/ QueryCall(c)
    \/ QueryCheck(c)
    \/ QueryCounter(c)
    \/ QuerySet(c)

\* how an HTTP exchange of the probe ends: a response with a status and a
\* body that was read, a response whose body could not be read, or an error
\* of client.Do
Exchanges == {"200", "204", "500", "body error", "network error"}
Accepted == {"200", "204"}
Millis == {1, 2}

\* the host calls MeasureDelay(url)
ProbeCall(c) ==
    /\ panicked = ""
    /\ api[c].pc = "idle"
    /\ ops < MaxOps
    /\ ops' = ops + 1
    /\ api' = [api EXCEPT ![c] = [IdleApi EXCEPT !.op = "MeasureDelay",
                                                 !.pc = "begin"]]
    /\ UNCHANGED <<now, unitVars, outbound, reader, x, coreMutex, insts, emitted, lastOp, left,
                   dialerVars, osVars, calls, dial, panicked, pointVars>>

\* MeasureDelay, lines 159-162: context.WithTimeout(12 s), x.coreInstance
\* read without coreMutex; measureInstDelay, lines 244-246 and 273-275:
\* inst == nil returns -1 and an error
ProbeBegin(c) ==
    /\ panicked = ""
    /\ api[c].pc = "begin"
    /\ api' = IF x.coreInstance = 0
              THEN [CoreReturn(c, "error") EXCEPT ![c].ctx = "live",
                                                  ![c].val = -1]
              ELSE [api EXCEPT ![c].pc = "select", ![c].ctx = "live",
                               ![c].inst = x.coreInstance, ![c].val = -1]
    /\ UNCHANGED <<now, unitVars, outbound, reader, x, coreMutex, insts, emitted, ops, lastOp,
                   left, dialerVars, osVars, calls, dial, panicked, pointVars>>

\* the 12 seconds of the context are over
ProbeExpire(c) ==
    /\ panicked = ""
    /\ api[c].pc \in {"select", "do", "finish"}
    /\ api[c].ctx = "live"
    /\ api' = [api EXCEPT ![c].ctx = "expired"]
    /\ UNCHANGED <<now, unitVars, outbound, reader, x, coreMutex, insts, emitted, ops, lastOp,
                   left, dialerVars, osVars, calls, dial, panicked, pointVars>>

\* measureInstDelay, lines 281-290: the select at the head of the loop
ProbeSelect(c) ==
    /\ panicked = ""
    /\ api[c].pc = "select"
    /\ api' = IF api[c].ctx # "live"
              THEN IF ~api[c].success
                   THEN [CoreReturn(c, "error") EXCEPT ![c].val = -1]
                   ELSE CoreReturn(c, "nil")
              ELSE [api EXCEPT ![c].pc = "do"]
    /\ UNCHANGED <<now, unitVars, outbound, reader, x, coreMutex, insts, emitted, ops, lastOp,
                   left, dialerVars, osVars, calls, dial, panicked, pointVars>>

\* the exchanges client.Do can make now: through an instance that is not
\* running, or once the context is done, it returns an error
Possible(c) ==
    IF /\ api[c].ctx = "live"
       /\ insts[api[c].inst].started /\ ~insts[api[c].inst].closed
    THEN Exchanges
    ELSE {"network error"}

\* Mutant of ProbeExchange: one attempt, any failure ends the probe, as in
\* the measureInstDelay of part_000 lines 262-299
ProbeExchangeOnce(c) ==
    /\ panicked = ""
    /\ api[c].pc = "do"
    /\ \E how \in Possible(c), ms \in Millis :
          LET was == [api EXCEPT ![c].got = Append(@, <<how, ms>>),
                                 ![c].i = @ + 1]
          IN api' = IF how \in Accepted
                    THEN [was EXCEPT ![c].pc =
                                        IF api[c].i + 1 < attempts
                                        THEN "select" ELSE "finish",
                                     ![c].val = ms, ![c].success = TRUE]
                    ELSE [was EXCEPT ![c].pc = "idle", ![c].ret = "error",
                                     ![c].val = -1]
    /\ UNCHANGED <<now, unitVars, outbound, reader, x, coreMutex, insts, emitted, ops, lastOp,
                   left, dialerVars, osVars, calls, dial, panicked, pointVars>>

\* measureInstDelay, lines 292-322: one pass of the loop body.  client.Do,
\* the status test and the reading of the body; a failure goes on to the
\* next attempt, a success keeps the smaller duration.
ProbeExchange(c) ==
    /\ panicked = ""
    /\ api[c].pc = "do"
    /\ \E how \in Possible(c), ms \in Millis :
          LET was == [api EXCEPT ![c].got = Append(@, <<how, ms>>),
                                 ![c].i = @ + 1,
                                 ![c].pc = IF api[c].i + 1 < attempts
                                           THEN "select" ELSE "finish"]
          IN api' = IF how \in Accepted
                    THEN [was EXCEPT
                            ![c].val = IF ~api[c].success \/ ms < api[c].val
                                       THEN ms ELSE api[c].val,
                            ![c].success = TRUE]
                    ELSE was
    /\ UNCHANGED <<now, unitVars, outbound, reader, x, coreMutex, insts, emitted, ops, lastOp,
                   left, dialerVars, osVars, calls, dial, panicked, pointVars>>

\* measureInstDelay, lines 324-327
ProbeFinish(c) ==
    /\ panicked = ""
    /\ api[c].pc = "finish"
    /\ api' = IF ~api[c].success
              THEN [CoreReturn(c, "error") EXCEPT ![c].val = -1]
              ELSE CoreReturn(c, "nil")
    /\ UNCHANGED <<now, unitVars, outbound, reader, x, coreMutex, insts, emitted, ops, lastOp,
                   left, dialerVars, osVars, calls, dial, panicked, pointVars>>

ProbeStep(c) ==
    \/ ProbeCall(c)
    \/ ProbeBegin(c)
    \/ ProbeExpire(c)
    \/ ProbeSelect(c)
    \/ ProbeExchange(c)
    \/ ProbeFinish(c)

(***************************************************************************)
(* MeasureOutboundDelay (src/libv2ray_main.go, lines 166-194), a function  *)
(* of the package: it builds a core of its own from the configuration it   *)
(* is given and touches no CoreController.                                 *)
(*   outbound.input   the configuration LoadJSONConfig read                *)
(*   outbound.config  the configuration as the function has altered it     *)
(*   outbound.inst    the instance: "" (none), "new", "started", "closed"  *)
(* An entry of config.App is a TypedMessage; Value stands for its bytes.   *)
(***************************************************************************)
EssentialTypes == {"xray.app.proxyman.OutboundConfig",
                   "xray.app.dispatcher.Config",
                   "xray.app.log.Config"}
AppTypes == EssentialTypes \cup {"xray.app.proxyman.InboundConfig",
                                 "xray.app.stats.Config"}
Inbounds == {<<>>, <<"socks">>}

\* the configurations MeasureOutboundDelay is called with: up to MaxApps
\* entries of any type in any order, the k-th with the bytes k
Configs ==
    {[App |-> [k \in DOMAIN types |-> [Type |-> types[k], Value |-> k]],
      Inbound |-> inbound] :
        types \in UNION {[1..m -> AppTypes] : m \in 0..MaxApps},
        inbound \in Inbounds}

\* Mutant of essentialApp: the first five entries are kept, as in the
\* MeasureOutboundDelay of part_002 line 202
essentialAppFirstFive(app) ==
    SubSeq(app, 1, IF Len(app) < 5 THEN Len(app) ELSE 5)

\* lines 174-181: the loop that collects essentialApp
RECURSIVE essentialApp(_)
essentialApp(app) ==
    IF app = <<>>
    THEN <<>>
    ELSE IF \/ Head(app).Type = "xray.app.proxyman.OutboundConfig"
            \/ Head(app).Type = "xray.app.dispatcher.Config"
            \/ Head(app).Type = "xray.app.log.Config"
         THEN <<Head(app)>> \o essentialApp(Tail(app))
         ELSE essentialApp(Tail(app))

\* lines 167-170: LoadJSONConfig; the content may fail to parse
OutboundLoad ==
    /\ outbound.pc = "load"
    /\ \/ outbound' = [outbound EXCEPT !.pc = "idle",
                                       !.ret = "config load error"]
       \/ outbound' = [outbound EXCEPT !.pc = "strip",
                                       !.config = outbound.input]
    /\ UNCHANGED <<now, unitVars, reader, x, coreMutex, insts, emitted, api, ops,
                   lastOp, left, dialerVars, osVars, calls, dial, panicked,
                   pointVars>>

\* lines 173-182: config.Inbound = nil; config.App = essentialApp
OutboundStrip ==
    /\ outbound.pc = "strip"
    /\ outbound' = [outbound EXCEPT
                       !.pc = "new",
                       !.config = [App |-> essentialApp(outbound.config.App),
                                   Inbound |-> <<>>]]
    /\ UNCHANGED <<now, unitVars, reader, x, coreMutex, insts, emitted, api, ops,
                   lastOp, left, dialerVars, osVars, calls, dial, panicked,
                   pointVars>>

\* lines 184-187: core.New(config)
OutboundNew ==
    /\ outbound.pc = "new"
    /\ \/ outbound' = [outbound EXCEPT !.pc = "idle",
                                       !.ret = "instance creation failed"]
       \/ outbound' = [outbound EXCEPT !.pc = "start", !.inst = "new"]
    /\ UNCHANGED <<now, unitVars, reader, x, coreMutex, insts, emitted, api, ops,
                   lastOp, left, dialerVars, osVars, calls, dial, panicked,
                   pointVars>>

\* lines 189-191: inst.Start(); on an error the function returns before the
\* Close is deferred
OutboundStart ==
    /\ outbound.pc = "start"
    /\ \/ outbound' = [outbound EXCEPT !.pc = "idle",
                                       !.ret = "startup failed"]
       \/ outbound' = [outbound EXCEPT !.pc = "measure", !.inst = "started"]
    /\ UNCHANGED <<now, unitVars, reader, x, coreMutex, insts, emitted, api, ops,
                   lastOp, left, dialerVars, osVars, calls, dial, panicked,
                   pointVars>>

\* lines 192-193: measureInstDelay(context.Background(), inst, url), then
\* the deferred inst.Close()
OutboundMeasure ==
    /\ outbound.pc = "measure"
    /\ \E result \in {"nil", "error"} :
          outbound' = [outbound EXCEPT !.pc = "idle", !.ret = result,
                                       !.inst = "closed"]
    /\ UNCHANGED <<now, unitVars, reader, x, coreMutex, insts, emitted, api, ops,
                   lastOp, left, dialerVars, osVars, calls, dial, panicked,
                   pointVars>>

OutboundStep ==
    \/ OutboundLoad
    \/ OutboundStrip
    \/ OutboundNew
    \/ OutboundStart
    \/ OutboundMeasure

(***************************************************************************)
(* The file reader InitCoreEnv installs as corefilesystem.NewFileReader    *)
(* (src/libv2ray_main.go, lines 70-90).  A path is the sequence of its     *)
(* elements below the root; envPath is the asset directory InitCoreEnv was *)
(* given.                                                                  *)
(*   reader.opened  what the call opened: <<"file", path>> for os.Open,    *)
(*                  <<"asset", name>> for mobasset.Open, <<>> for nothing  *)
(***************************************************************************)
Names == {"assets", "assets-evil", "..", "geoip.dat"}
Paths == UNION {[1..n -> Names] : n \in 1..MaxSegs}
Dirs == {<<"assets">>}

\* filepath.Clean on an absolute path: ".." removes the element before it
\* and is dropped at the root
RECURSIVE CleanOnto(_, _)
CleanOnto(done, rest) ==
    IF rest = <<>>
    THEN done
    ELSE IF Head(rest) = ".."
         THEN CleanOnto(IF done = <<>> THEN <<>>
                        ELSE SubSeq(done, 1, Len(done) - 1), Tail(rest))
         ELSE CleanOnto(Append(done, Head(rest)), Tail(rest))

Clean(path) == CleanOnto(<<>>, path)

\* the path lies in the directory or below it
Inside(path, dir) ==
    Len(path) >= Len(dir) /\ SubSeq(path, 1, Len(dir)) = dir

\* line 84: os.Stat(path); os.IsNotExist(err)
ReaderStat ==
    /\ reader.pc = "stat"
    /\ \E exists \in BOOLEAN :
          reader' = [reader EXCEPT !.pc = IF exists THEN "open" ELSE "asset"]
    /\ UNCHANGED <<now, unitVars, outbound, x, coreMutex, insts, emitted, api,
                   ops, lastOp, left, dialerVars, osVars, calls, dial,
                   panicked, pointVars>>

\* lines 85-86: filepath.Split(path), mobasset.Open(file)
ReaderAsset ==
    /\ reader.pc = "asset"
    /\ LET file == reader.path[Len(reader.path)]
       IN \/ reader' = [reader EXCEPT !.pc = "idle", !.ret = "nil",
                                      !.opened = <<"asset", file>>]
          \/ reader' = [reader EXCEPT !.pc = "idle", !.ret = "error"]
    /\ UNCHANGED <<now, unitVars, outbound, x, coreMutex, insts, emitted, api,
                   ops, lastOp, left, dialerVars, osVars, calls, dial,
                   panicked, pointVars>>

\* line 88: os.Open(path)
ReaderOpen ==
    /\ reader.pc = "open"
    /\ \/ reader' = [reader EXCEPT !.pc = "idle", !.ret = "nil",
                                   !.opened = <<"file", reader.path>>]
       \/ reader' = [reader EXCEPT !.pc = "idle", !.ret = "error"]
    /\ UNCHANGED <<now, unitVars, outbound, x, coreMutex, insts, emitted, api,
                   ops, lastOp, left, dialerVars, osVars, calls, dial,
                   panicked, pointVars>>

ReaderStep ==
    \/ ReaderStat
    \/ ReaderAsset
    \/ ReaderOpen

(***************************************************************************)
(* Specifications                                                          *)
(***************************************************************************)
\* no Dial has been called yet: the process holds no socket
NoDial ==
    /\ now = 0
    /\ fdTable = [f \in Fds |-> 0]
    /\ sock = [s \in Calls |-> NewSock]
    /\ conns = {}
    /\ calls = 0
    /\ dial = [d \in Dials |-> IdleDial]
    /\ panicked = ""
    /\ NoUnit
    /\ NoCore

\* after NewV2RayPoint (part_003 lines 239-254) and NewPreotectedDialer
New ==
    /\ NoDial
    /\ currentServer = ""
    /\ resolveChan = 0
    /\ preferIPv6 = FALSE
    /\ vServer = Nil
    /\ chans = [c \in ChanIds |-> FALSE]
    /\ v2rayOP = ""
    /\ IsRunning = FALSE
    /\ closeChan = 0
    /\ DomainName = ""
    /\ AsyncResolve \in BOOLEAN
    /\ starts = 0
    /\ host = IdleHost
    /\ prep = [k \in Starts |-> IdlePrep]
    /\ watch = [k \in Starts |-> IdleWatch]

\* what the first preparation of "a:1" stores when the resolver answers with
\* one IPv4 and one IPv6 address
ReadyServer == lookupAddr("a:1", <<"v4a", "v6a">>, FALSE, FALSE).rs

\* The controller after a first RunLoop("a:1") that is over for the host:
\*   "ready"    the server was resolved, the core ran and the host stopped it
\*   "failed"   ten lookups failed and handleResolve stopped the core
\*   "pending"  AsyncResolve: the core failed to start (pointloop returned an
\*              error); in the preparation goroutine PrepareDomain has just
\*              returned from its tenth failure, the close is still to come
Later(was) ==
    /\ NoDial
    /\ currentServer = "a:1"
    /\ resolveChan = 2
    /\ preferIPv6 = FALSE
    /\ vServer = IF was = "ready" THEN ReadyServer ELSE Nil
    /\ chans = [c \in ChanIds |-> IF c = 1 THEN was # "pending"
                                  ELSE IF c = 2 THEN was # "pending" ELSE FALSE]
    /\ v2rayOP = ""
    /\ IsRunning = FALSE
    /\ closeChan = 1
    /\ DomainName = "a:1"
    /\ AsyncResolve \in (IF was = "pending" THEN {TRUE} ELSE BOOLEAN)
    /\ starts = 1
    /\ host = IdleHost
    /\ prep = [k \in Starts |->
                 IF k # 1 THEN IdlePrep
                 ELSE IF was = "pending"
                      THEN [IdlePrep EXCEPT !.pc = "fire", !.domain = "a:1",
                                            !.exit = "exhausted"]
                      ELSE [IdlePrep EXCEPT !.pc = "done", !.domain = "a:1",
                               !.exit = IF was = "ready" THEN "resolved"
                                        ELSE "exhausted",
                               !.fired = 1, !.firedCh = 2]]
    /\ watch = [k \in Starts |->
                  IF k # 1 THEN IdleWatch
                  ELSE IF was = "pending"
                       THEN [pc |-> "blk", rch |-> 2, cch |-> 1]
                       ELSE [IdleWatch EXCEPT !.pc = "done"]]

Next ==
    \/ \E d \in Dials : DialStep(d)
    \/ \E k \in Starts : PrepStep(k)
    \/ \E k \in Starts : WatchStep(k)
    \/ RunLoopEnter
    \/ RunLoopResolveChan
    \/ RunLoopPrepare
    \/ RunLoopPrepared
    \/ RunLoopPointloop
    \/ StopLoop

\* One RunLoop cycle, the first or a later one, with PrepCalls Dial calls
Init ==
    /\ New \/ \E was \in {"ready", "failed", "pending"} : Later(was)
    /\ left = [runs |-> PrepRuns, dials |-> PrepCalls]

Spec == Init /\ [][Next]_vars

\* The controller alone: MaxStarts RunLoop calls, no Dial
InitPoint ==
    /\ New
    /\ left = [runs |-> MaxStarts, dials |-> 0]

NextPoint ==
    \/ \E k \in Starts : PrepStep(k)
    \/ \E k \in Starts : WatchStep(k)
    \/ RunLoopEnter
    \/ RunLoopResolveChan
    \/ RunLoopPrepare
    \/ RunLoopPrepared
    \/ RunLoopPointloop
    \/ StopLoop

SpecPoint == InitPoint /\ [][NextPoint]_vars

\* One RunLoop cycle from construction, no Dial; every started prepareDomain
\* closure keeps being scheduled (the Go scheduler starves no goroutine)
InitPrepare ==
    /\ New
    /\ left = [runs |-> PrepRuns, dials |-> 0]

FairPrepare ==
    /\ InitPrepare
    /\ [][NextPoint]_vars
    /\ \A k \in Starts : WF_vars(PrepStep(k))

\* One RunLoop cycle from construction in which, besides the closures, the
\* handleResolve goroutines and a RunLoop under way keep being scheduled;
\* the host is free to call StopLoop or not
RunLoopStep ==
    \/ RunLoopResolveChan
    \/ RunLoopPrepare
    \/ RunLoopPrepared
    \/ RunLoopPointloop

FairPoint ==
    /\ InitPrepare
    /\ [][NextPoint]_vars
    /\ \A k \in Starts : WF_vars(PrepStep(k))
    /\ \A k \in Starts : WF_vars(WatchStep(k))
    /\ WF_vars(RunLoopStep)

\* The dialer alone, its server resolved: MaxCalls Dial calls, at most
\* NumDials of them at once.  With vServer set, Dial never takes the branch
\* of lines 402-410.
DialReadyStep(d) ==
    \/ DialBegin(d)
    \/ DialCheck(d)
    \/ DialLookup(d)
    \/ DialGetFd(d)
    \/ DialCurIP(d)
    \/ DialProtect(d)
    \/ DialBindConnect(d)
    \/ DialFileConn(d)
    \/ DialFileClose(d)
    \/ DialClose(d)
    \/ DialNextIP(d)
    \/ DialEnd(d)

InitFd ==
    /\ Later("ready")
    /\ left = [runs |-> 0, dials |-> MaxCalls]

NextFd == \E d \in Dials : DialReadyStep(d)

SpecFd == InitFd /\ [][NextFd]_vars

\* lookupAddr, NextIP and currentIP alone, on a dialer whose preferIPv6 a
\* PrepareDomain has set either way: the resolver's answer is the input
InitUnit ==
    /\ now = 0
    /\ fdTable = [f \in Fds |-> 0]
    /\ sock = [s \in Calls |-> NewSock]
    /\ conns = {}
    /\ calls = 0
    /\ dial = [d \in Dials |-> IdleDial]
    /\ panicked = ""
    /\ left = [runs |-> 0, dials |-> 0]
    /\ currentServer = ""
    /\ resolveChan = 0
    /\ preferIPv6 \in BOOLEAN
    /\ vServer = Nil
    /\ chans = [c \in ChanIds |-> FALSE]
    /\ v2rayOP = ""
    /\ IsRunning = FALSE
    /\ closeChan = 0
    /\ DomainName = ""
    /\ AsyncResolve = FALSE
    /\ starts = 0
    /\ host = IdleHost
    /\ prep = [k \in Starts |-> IdlePrep]
    /\ watch = [k \in Starts |-> IdleWatch]
    /\ answer \in [addrs : LongAnswers, err : BOOLEAN]
    /\ lookup = ""
    /\ endpoint = Nil
    /\ ipLock = 0
    /\ caller = [c \in Callers |-> IdleCaller]
    /\ hist = NoHist
    /\ NoCore

NextUnit ==
    \/ Tick
    \/ UnitLookup
    \/ \E c \in Callers : UnitStep(c)

SpecUnit == InitUnit /\ [][NextUnit]_vars

\* resolved.NextIP and resolved.currentIP on a resolved built directly, as
\* Test_resolved_NextIP (part_004 lines 97-125) builds it, with a list of
\* few addresses or of about as many as a uint8 counts
InitRotate ==
    /\ now = 0
    /\ fdTable = [f \in Fds |-> 0]
    /\ sock = [s \in Calls |-> NewSock]
    /\ conns = {}
    /\ calls = 0
    /\ dial = [d \in Dials |-> IdleDial]
    /\ panicked = ""
    /\ left = [runs |-> 0, dials |-> 0]
    /\ currentServer = ""
    /\ resolveChan = 0
    /\ preferIPv6 = FALSE
    /\ vServer = Nil
    /\ chans = [c \in ChanIds |-> FALSE]
    /\ v2rayOP = ""
    /\ IsRunning = FALSE
    /\ closeChan = 0
    /\ DomainName = ""
    /\ AsyncResolve = FALSE
    /\ starts = 0
    /\ host = IdleHost
    /\ prep = [k \in Starts |-> IdlePrep]
    /\ watch = [k \in Starts |-> IdleWatch]
    /\ answer = [addrs |-> <<>>, err |-> FALSE]
    /\ lookup = "ok"
    /\ endpoint \in Lists
    /\ ipLock = 0
    /\ caller = [c \in Callers |-> IdleCaller]
    /\ hist = NoHist
    /\ NoCore

NextRotate ==
    \/ Wait
    \/ \E c \in Callers : UnitStep(c)

SpecRotate == InitRotate /\ [][NextRotate]_vars

\* The CoreController alone: MaxOps StartLoop, StopLoop and QueryStats calls
\* from NumCallers threads of the host, while a running core counts traffic
InitCore ==
    /\ New
    /\ AsyncResolve = FALSE
    /\ left = [runs |-> 0, dials |-> 0]

NextCore ==
    \/ \E c \in Callers : CoreStep(c)
    \/ \E c \in Callers : QueryStep(c)
    \/ CoreTraffic

SpecCore == InitCore /\ [][NextCore]_vars

\* The CoreController with MeasureDelay: MaxOps StartLoop, StopLoop and
\* MeasureDelay calls from NumCallers threads of the host
NextProbe ==
    \/ \E c \in Callers : CoreStep(c)
    \/ \E c \in Callers : ProbeStep(c)

SpecProbe == InitCore /\ [][NextProbe]_vars

\* MeasureOutboundDelay alone, called with any of the configurations
InitFilter ==
    /\ now = 0
    /\ fdTable = [f \in Fds |-> 0]
    /\ sock = [s \in Calls |-> NewSock]
    /\ conns = {}
    /\ calls = 0
    /\ dial = [d \in Dials |-> IdleDial]
    /\ panicked = ""
    /\ NoUnit
    /\ left = [runs |-> 0, dials |-> 0]
    /\ currentServer = ""
    /\ resolveChan = 0
    /\ preferIPv6 = FALSE
    /\ vServer = Nil
    /\ chans = [c \in ChanIds |-> FALSE]
    /\ v2rayOP = ""
    /\ IsRunning = FALSE
    /\ closeChan = 0
    /\ DomainName = ""
    /\ AsyncResolve = FALSE
    /\ starts = 0
    /\ host = IdleHost
    /\ prep = [k \in Starts |-> IdlePrep]
    /\ watch = [k \in Starts |-> IdleWatch]
    /\ x = [coreInstance |-> 0, IsRunning |-> FALSE, statsManager |-> 0]
    /\ coreMutex = 0
    /\ insts = <<>>
    /\ emitted = <<>>
    /\ api = [c \in Callers |-> IdleApi]
    /\ ops = 0
    /\ lastOp = ""
    /\ \E input \in Configs :
          outbound = [IdleOutbound EXCEPT !.pc = "load", !.input = input]
    /\ reader = IdleReader

NextFilter == OutboundStep

SpecFilter == InitFilter /\ [][NextFilter]_vars

\* The file reader alone, after InitCoreEnv(envPath, key), called by the core
\* with any of the paths
InitReader ==
    /\ now = 0
    /\ fdTable = [f \in Fds |-> 0]
    /\ sock = [s \in Calls |-> NewSock]
    /\ conns = {}
    /\ calls = 0
    /\ dial = [d \in Dials |-> IdleDial]
    /\ panicked = ""
    /\ NoUnit
    /\ left = [runs |-> 0, dials |-> 0]
    /\ currentServer = ""
    /\ resolveChan = 0
    /\ preferIPv6 = FALSE
    /\ vServer = Nil
    /\ chans = [c \in ChanIds |-> FALSE]
    /\ v2rayOP = ""
    /\ IsRunning = FALSE
    /\ closeChan = 0
    /\ DomainName = ""
    /\ AsyncResolve = FALSE
    /\ starts = 0
    /\ host = IdleHost
    /\ prep = [k \in Starts |-> IdlePrep]
    /\ watch = [k \in Starts |-> IdleWatch]
    /\ x = [coreInstance |-> 0, IsRunning |-> FALSE, statsManager |-> 0]
    /\ coreMutex = 0
    /\ insts = <<>>
    /\ emitted = <<>>
    /\ api = [c \in Callers |-> IdleApi]
    /\ ops = 0
    /\ lastOp = ""
    /\ outbound = IdleOutbound
    /\ \E dir \in Dirs, path \in Paths :
          reader = [IdleReader EXCEPT !.pc = "stat", !.envPath = dir,
                                      !.path = path]

NextReader == ReaderStep

SpecReader == InitReader /\ [][NextReader]_vars

(***************************************************************************)
(* Claims about descriptors, checked under SpecFd                          *)
(***************************************************************************)
\* the call has returned to Dial's caller
Returned(d) == dial[d].pc = "done"
\* descriptor f belongs to a connection that fdConn built on socket s
Owned(f, s) ==
    \/ <<f, s>> \in conns
    \/ \E e \in Dials : dial[e].conn = f /\ dial[e].connSock = s

\* C1: every Dial that returns a connection returns one whose socket had
\* Protect invoked on it exactly once, with the answer true, and before any
\* bind or connect was issued on it.
C1_ProtectedOnce ==
    \A d \in Dials :
       Returned(d) /\ dial[d].res = "conn"
         /\ fdTable[dial[d].conn] = dial[d].connSock
       => LET s == sock[dial[d].connSock]
          IN s.protN = 1 /\ s.protOK = 1 /\ s.inOrder

\* C2: a Dial to which Protect answered false issues no bind or connect,
\* goes straight to closing its descriptor, has closed it when it returns, and
\* returns the protect-failure error.
C2_ProtectRefused ==
    \A d \in Dials :
       dial[d].err = "ProtectFail"
       => /\ ~dial[d].bc
          /\ dial[d].pc \in {"close", "nextip", "done"}
          /\ dial[d].pc # "close"
               => dial[d].closes = 1 /\ fdTable[dial[d].fd] # dial[d].id
          /\ Returned(d) => dial[d].res = "ProtectFail"

C2_Witness ==
    \E d \in Dials :
       /\ Returned(d)
       /\ dial[d].res = "ProtectFail"
       /\ dial[d].fd # 0
       /\ dial[d].closes = 1

\* C3: a Dial that returns an error after it created a socket leaves no
\* descriptor of that socket behind, and whenever no Dial is in progress
\* every open descriptor belongs to a connection some Dial returned.
C3_NoLeak ==
    /\ \A d \in Dials :
          Returned(d) /\ dial[d].res # "conn" /\ dial[d].fd # 0
          => /\ dial[d].closes >= 1
             /\ \A f \in Fds : fdTable[f] = dial[d].id => Owned(f, dial[d].id)
    /\ (\A d \in Dials : dial[d].pc \in {"idle", "done"})
       => \A f \in Fds : fdTable[f] # 0 => Owned(f, fdTable[f])

C3_Witness ==
    /\ \A d \in Dials : dial[d].pc \in {"idle", "done"}
    /\ \E d \in Dials :
          /\ Returned(d)
          /\ dial[d].res \in {"Bind", "Connect", "FileConn"}
          /\ dial[d].fd # 0
    /\ conns # {}

\* C4: every Dial closes the descriptor number it got from socket() exactly
\* once, and never issues a close on a number that no longer refers to its
\* own socket.
C4_ClosedOnce ==
    \A d \in Dials : dial[d].closes <= 1 /\ ~dial[d].stray

(***************************************************************************)
(* Claims about the preparation, checked under SpecPoint and Spec          *)
(***************************************************************************)
\* the call sits in the receive of line 403 on a channel nobody has closed
Blocked(d) ==
    /\ dial[d].pc = "recv"
    /\ dial[d].waitCh = 0 \/ ~chans[dial[d].waitCh]

\* C5: every prepareDomain closure that has run to its end has fired the
\* signal exactly once, whichever way PrepareDomain returned.
C5_FiredOnce ==
    \A k \in Starts : prep[k].pc = "done" => prep[k].fired = 1

\* C6: a Dial to the primary that found vServer unset has neither created a
\* socket nor returned anything unless the channel it waits on is closed.
C6_WaitsForSignal ==
    \A d \in Dials :
       dial[d].pend
       => \/ /\ dial[d].pc \in {"wait", "recv"}
             /\ dial[d].fd = 0
             /\ dial[d].res = ""
          \/ /\ dial[d].waitCh # 0
             /\ chans[dial[d].waitCh]

C6_Witness ==
    \E d \in Dials :
       /\ dial[d].pend
       /\ dial[d].fd # 0
       /\ \E k \in Starts : prep[k].firedCh = dial[d].waitCh

\* C7: once the preparation of a RunLoop has run to its end, no Dial is
\* still blocked on the signal that RunLoop made.
C7_NoneBlockedAfterPrepare ==
    \A k \in Starts, d \in Dials :
       prep[k].pc = "done" /\ dial[d].waitCh = 2 * k => ~Blocked(d)

\* the preparations so far have all ended and RunLoop is not about to start one
PrepareEnded ==
    /\ host.pc = "idle"
    /\ \A k \in Starts : prep[k].pc \in {"off", "done"}
    /\ \E k \in Starts : prep[k].pc = "done"

\* C8: while vServer is unset, a Dial to the primary that got past its wait
\* has returned the prepare-failure error without creating a socket; no Dial
\* dereferences the nil vServer; and once the preparation has ended with
\* vServer unset no Dial is left waiting.
C8_FailsFast ==
    /\ panicked # "nil dereference"
    /\ \A d \in Dials :
          dial[d].pinned /\ vServer = Nil
            /\ dial[d].pc \notin {"chk", "wait", "recv"}
          => Returned(d) /\ dial[d].res = "PrepareFailed" /\ dial[d].fd = 0
    /\ PrepareEnded /\ vServer = Nil /\ panicked = ""
       => \A d \in Dials : ~Blocked(d)

C8_Witness ==
    /\ PrepareEnded
    /\ \E k \in Starts : prep[k].exit \in {"exhausted", "cancelled"}
    /\ \E d \in Dials :
          /\ Returned(d)
          /\ dial[d].pinned
          /\ dial[d].res = "PrepareFailed"

\* C9: a Dial whose ctx ended while it was blocked in the receive leaves the
\* receive only to return the error of its ctx.
C9_RespectsContext ==
    \A d \in Dials :
       dial[d].late
       => \/ dial[d].pc = "recv"
          \/ Returned(d) /\ dial[d].res = "Canceled"

\* C10: a Dial to the primary issues its bind or connect only with the
\* endpoint that was resolved for that primary.
C10_NeverOldEndpoint ==
    \A d \in Dials :
       dial[d].pinned /\ dial[d].bc => dial[d].ep = HostOf(dial[d].dest)

\* the prepareDomain closure of the k-th RunLoop has been started and has not
\* run to its end
Preparing(k) == prep[k].pc \in {"args", "set", "look", "fire"}

\* C11: at most one preparation of the dialer is in progress at any time,
\* whatever the host's sequence of RunLoop and StopLoop calls; so no closure
\* closes the channel of a cycle other than its own.
C11_OnePreparation ==
    /\ \A j, k \in Starts : Preparing(j) /\ Preparing(k) => j = k
    /\ \A k \in Starts : prep[k].fired > 0 => prep[k].firedCh = 2 * k

(***************************************************************************)
(* Claims about lookupAddr and the endpoint, checked under SpecUnit        *)
(***************************************************************************)
\* C12: on one endpoint, the instants of two advancements of ipIdx are at
\* least 5 seconds apart, however the NextIP calls interleave; an endpoint
\* with at most one address never has its ipIdx changed.
C12_Throttled ==
    /\ hist.prev # ZeroTime => hist.last - hist.prev >= Throttle
    /\ lookup = "ok" /\ Len(endpoint.IPs) <= 1
       => endpoint.ipIdx = 0 /\ hist = NoHist

C12_Witness ==
    /\ hist.prev # ZeroTime
    /\ \E c \in Callers : caller[c].pc = "switch"
                          /\ Since(endpoint.lastSwitched) < Throttle

C14_NeverEmpty ==
    /\ lookup = "ok"
       => /\ Len(endpoint.IPs) >= 1
          /\ ~answer.err
          /\ Len(answer.addrs) >= 1
    /\ lookup = "error" => endpoint = Nil /\ (answer.err \/ answer.addrs = <<>>)

\* the resolver answered with addresses of the family that is not preferred
C14_Witness ==
    /\ lookup = "ok"
    /\ Len(answer.addrs) = MaxIPs
    /\ IF preferIPv6 THEN SelectSeq6(answer.addrs) = <<>>
                     ELSE SelectSeq4(answer.addrs) = <<>>
    /\ Len(endpoint.IPs) = MaxIPs

\* the address belongs to the family the dialer prefers
Preferred(ip) == IF preferIPv6 THEN ip \notin V4Addrs ELSE ip \in V4Addrs
\* how often the address occurs in the list
Count(ip, list) == Cardinality({i \in 1..Len(list) : list[i] = ip})

\* C15: the IPs of the endpoint lookupAddr returns are the resolver's answer
\* stably partitioned by family: no address of the preferred family (IPv4
\* unless preferIPv6) comes after one of the other family, and within each
\* family the addresses keep the order of the answer.
C15_StablePartition ==
    lookup = "ok"
    => /\ \A i, j \in 1..Len(endpoint.IPs) :
             i < j /\ Preferred(endpoint.IPs[j]) => Preferred(endpoint.IPs[i])
       /\ SelectSeq4(endpoint.IPs) = SelectSeq4(answer.addrs)
       /\ SelectSeq6(endpoint.IPs) = SelectSeq6(answer.addrs)

\* the answer had the families interleaved and was reordered
C15_Witness ==
    /\ lookup = "ok"
    /\ Len(answer.addrs) = 3
    /\ ~Preferred(answer.addrs[1])
    /\ Preferred(answer.addrs[2])
    /\ ~Preferred(answer.addrs[3])
    /\ answer.addrs[1] # answer.addrs[3]
    /\ endpoint.IPs = <<answer.addrs[2], answer.addrs[1], answer.addrs[3]>>

\* C16: the IPs of the endpoint lookupAddr returns are a permutation of the
\* resolver's answer: every address occurs in them as often as in the answer,
\* none is added and none is dropped.
C16_Permutation ==
    lookup = "ok"
    => /\ Len(endpoint.IPs) = Len(answer.addrs)
       /\ \A ip \in Addrs :
             Count(ip, endpoint.IPs) = Count(ip, answer.addrs)

\* preferIPv6 with an answer of both families
C16_Witness ==
    /\ lookup = "ok"
    /\ preferIPv6
    /\ SelectSeq6(answer.addrs) # <<>>
    /\ SelectSeq4(answer.addrs) # <<>>
    /\ Len(endpoint.IPs) = MaxIPs

\* C17: the endpoint lookupAddr returns has ipIdx 0 and both lastResolved and
\* lastSwitched equal to the time of the lookup, so that no NextIP issued
\* less than 5 seconds after the lookup advances ipIdx.
C17_FreshTimestamps ==
    lookup = "ok"
    => /\ hist = NoHist
          => /\ endpoint.ipIdx = 0
             /\ endpoint.lastSwitched = endpoint.lastResolved
       /\ hist.last # ZeroTime
          => hist.last - endpoint.lastResolved >= Throttle

(***************************************************************************)
(* Claims about PrepareDomain, checked under FairPrepare and SpecPoint     *)
(***************************************************************************)
\* PrepareDomain of the k-th RunLoop has returned
PrepareReturned(k) == prep[k].pc \in {"fire", "done"}

\* C18: every PrepareDomain call returns; it calls lookupAddr at most 10
\* times, and the step in which it stores vServer is the step of its first
\* successful lookup, with which it returns.
C18_Terminates ==
    /\ [](\A k \in Starts : prep[k].tries <= MaxRetry
                            /\ prep[k].tries + prep[k].maxRetry
                                 \in {0, MaxRetry})
    /\ [][vServer' # vServer
          => \E k \in Starts : /\ prep[k].pc = "look"
                               /\ PrepareReturned(k)'
                               /\ prep'[k].exit = "resolved"]_vars
    /\ \A k \in Starts : (prep[k].pc = "set") ~> PrepareReturned(k)

\* the tenth lookup has failed and PrepareDomain has returned
C18_Witness ==
    \E k \in Starts : PrepareReturned(k) /\ prep[k].exit = "exhausted"

\* C19: a PrepareDomain that finds closeCh closed in the wait after a failed
\* lookup returns with vServer left alone and without another lookup, and the
\* resolve channel of its RunLoop is closed once its closure has run.
C19_CancelledFires ==
    \A k \in Starts :
       prep[k].exit = "cancelled"
       => /\ PrepareReturned(k)
          /\ prep[k].pc = "done" => chans[2 * k]

C21_OtherDialKeepsEndpoint ==
    [][\A d \in Dials :
          dial[d].pc # "idle" /\ ~dial[d].pinned /\ dial'[d] # dial[d]
             => vServer' = vServer]_vars

C21_Witness ==
    \E d, e \in Dials :
       /\ Returned(d) /\ ~dial[d].pinned /\ dial[d].res \notin {"", "conn"}
       /\ Returned(e) /\ ~dial[e].pinned /\ dial[e].res = "conn"
       /\ vServer = ReadyServer

Emitted(what, i) ==
    Cardinality({k \in 1..Len(emitted) : emitted[k] = <<what, i>>})

C23_RunningIffInstance ==
    coreMutex = 0 => (x.IsRunning <=> x.coreInstance # 0)

\* C24: the start callbacks happen once for every StartLoop that starts the
\* core, Startup first and the started status after it, and only after the
\* core's Start succeeded; a StartLoop that fails or finds the controller
\* running calls neither.
C24_StartCallbacks ==
    /\ \A i \in 1..Len(insts) :
          /\ Emitted("Startup", i) <= 1
          /\ Emitted("Started", i) <= Emitted("Startup", i)
          /\ Emitted("Startup", i) = 1 => insts[i].started
          /\ \A k, l \in 1..Len(emitted) :
                emitted[k] = <<"Startup", i>> /\ emitted[l] = <<"Started", i>>
                   => k < l
    /\ \A c \in Callers :
          api[c].pc = "idle" /\ api[c].op = "StartLoop" =>
             IF api[c].ret = "nil" /\ ~api[c].found
             THEN /\ Emitted("Startup", api[c].inst) = 1
                  /\ Emitted("Started", api[c].inst) = 1
             ELSE api[c].inst # 0 =>
                     /\ Emitted("Startup", api[c].inst) = 0
                     /\ Emitted("Started", api[c].inst) = 0
    /\ Emitted("Startup", 0) = 0 /\ Emitted("Started", 0) = 0
    /\ Cardinality({k \in 1..Len(emitted) :
                       emitted[k][1] \in {"Startup", "Started"}})
          <= 2 * Len(insts)

C24_Witness ==
    \E c, e \in Callers :
       /\ api[c].pc = "idle" /\ api[c].op = "StartLoop"
       /\ api[c].ret = "nil" /\ ~api[c].found
       /\ emitted[1] = <<"Startup", api[c].inst>>
       /\ api[e].pc = "idle" /\ api[e].op = "StartLoop"
       /\ api[e].ret = "startup failed"

\* C25: whoever reads IsRunning while a StartLoop or StopLoop is under way
\* sees the value before the call or the value the call ends with; IsRunning
\* is never true inside a StartLoop whose core failed to start.
C25_NeverRunningInFailedStart ==
    \A c \in Callers : api[c].pc = "failed" => ~x.IsRunning

\* C26: QueryStats returns 0 and changes nothing whenever statsManager is
\* nil, and statsManager is nil before the first StartLoop and after every
\* StopLoop; here the part about StopLoop: once a StopLoop has returned and
\* no StartLoop has run since, statsManager is nil.
C26_AbsentAfterStop ==
    lastOp = "StopLoop" /\ coreMutex = 0 => x.statsManager = 0

\* C27: QueryStats reads and resets the counter in one atomic step: for
\* every counter the values QueryStats returned plus the counter's value are
\* the traffic added to it, and a QueryStats with no traffic since the
\* previous one returns 0.
C27_ReadAndReset ==
    /\ [](\A i \in 1..Len(insts) :
            insts[i].added = insts[i].returned + insts[i].value)
    /\ [][\A c \in Callers :
            /\ api[c].pc = "set" /\ api'[c].pc = "idle"
            /\ insts[api[c].inst].added = insts[api[c].inst].returned
            => api'[c].val = 0]_vars

C27_Witness ==
    \E c, e \in Callers :
       /\ api[c].pc = "idle" /\ api[c].op = "QueryStats" /\ api[c].val = 1
       /\ api[c].inst # 0 /\ insts[api[c].inst].returned = 2
       /\ api[e].pc = "idle" /\ api[e].op = "QueryStats" /\ api[e].val = 0
       /\ api[e].inst = api[c].inst /\ api[e].tag = "proxy"

\* C28: StopLoop cancels a MeasureDelay in flight: a MeasureDelay during
\* which the core was shut down returns an error, its context cancelled
\* rather than run to its 12 seconds.
C28_StopCancelsProbe ==
    \A c \in Callers :
       api[c].op = "MeasureDelay" /\ api[c].pc = "idle" /\ api[c].stopped
          => api[c].ret = "error" /\ api[c].ctx = "cancelled"

Failed(c) == {k \in 1..Len(api[c].got) : api[c].got[k][1] \notin Accepted}
Passed(c) == {k \in 1..Len(api[c].got) : api[c].got[k][1] \in Accepted}

C30_FilterExact ==
    outbound.inst # "" =>
       LET orig == outbound.input.App
           kept == outbound.config.App
           wanted == {k \in 1..Len(orig) : orig[k].Type \in EssentialTypes}
       IN /\ outbound.config.Inbound = <<>>
          /\ Len(kept) = Cardinality(wanted)
          /\ \A j \in 1..Len(kept) :
                /\ kept[j].Value \in wanted
                /\ kept[j] = orig[kept[j].Value]
                /\ \A l \in 1..Len(kept) :
                      j < l => kept[j].Value < kept[l].Value

C30_Witness ==
    /\ outbound.inst = "closed"
    /\ Len(outbound.input.App) = MaxApps
    /\ outbound.input.Inbound # <<>>
    /\ outbound.input.App[1].Type \notin EssentialTypes
    /\ Len(outbound.config.App) = 2
    /\ outbound.config.App[1].Type = outbound.config.App[2].Type

\* C32: in a Dial to the pinned server d.vServer.NextIP() is called if and
\* only if the bind or connect failed; a Dial that got its connection, one
\* that got no socket and one to which Protect answered false do not reach
\* it and leave ipIdx as it was.
C32_RotateIffConnectFailed ==
    [][\A d \in Dials :
          dial[d].pinned =>
             /\ dial[d].pc = "nextip" => dial[d].err \in {"Bind", "Connect"}
             /\ dial[d].pc # "nextip" /\ dial[d].pc # "idle"
                /\ dial'[d] # dial[d]
                   => vServer' = vServer
             /\ dial[d].err \in {"Bind", "Connect"} /\ dial'[d].pc = "done"
                   => dial[d].pc = "nextip"]_vars

\* C34: the instance MeasureOutboundDelay built is closed when the call
\* returns, whether the measurement succeeded or failed or the instance
\* failed to start.
C34_InstanceClosed ==
    outbound.pc = "idle" /\ outbound.inst # "" => outbound.inst = "closed"

\* C36: the controller never has more than one instance that was
\* constructed and is not closed: an instance is closed before a later
\* StartLoop constructs another.
C36_OneOpenInstance ==
    Cardinality({i \in 1..Len(insts) : ~insts[i].closed}) <= 1

\* C37: MeasureDelay never dials through an instance StopLoop has closed:
\* every HTTP exchange of measureInstDelay goes through an instance that is
\* not closed.
C37_ProbeOnLiveInstance ==
    [][\A c \in Callers :
          api[c].op = "MeasureDelay" /\ Len(api'[c].got) > Len(api[c].got)
             => ~insts[api[c].inst].closed]_vars

\* C33: every NextIP that is not throttled sets ipIdx to (ipIdx + 1) mod
\* len(IPs), for every length of the list, those above 255 included.
C33_RotateModLen ==
    [][\A c \in Callers :
          caller[c].pc = "wrap" /\ caller'[c].pc = "idle"
             => hist'.committed = (hist.committed + 1) % Len(endpoint.IPs)]_vars

\* C31: the file reader rejects with an error, and without opening a file or
\* an asset, every path that after cleaning lies outside the asset
\* directory, a sibling directory whose name starts with that of the asset
\* directory included.
C31_RejectsOutside ==
    reader.pc = "idle" /\ reader.path # <<>>
    /\ ~Inside(Clean(reader.path), Clean(reader.envPath))
       => reader.ret = "error" /\ reader.opened = <<>>

(***************************************************************************)
(* Claims about RunLoop, StopLoop and handleResolve, checked under         *)
(* FairPoint                                                               *)
(***************************************************************************)
\* C35: when PrepareDomain has given up after its last retry and vServer is
\* not set, the controller gets to the state in which it is not running
\* and Shutdown() has been called exactly once for this RunLoop, with
\* AsyncResolve or without.
C35_ShutdownOnce ==
    /\ [](\A k \in Starts : watch[k].shutdown <= 1)
    /\ \A k \in Starts :
          (prep[k].exit = "exhausted" /\ vServer = Nil)
             ~> (~IsRunning /\ watch[k].shutdown = 1)

\* C38: a StopLoop of the host never brings about Shutdown(): Shutdown() is
\* called only when PrepareDomain gave up after its last retry, not when it
\* returned because closeCh was closed.
C38_NoShutdownOnStop ==
    \A k \in Starts : watch[k].shutdown > 0 => prep[k].exit = "exhausted"

====
